---------------------------- MODULE Spec2Model ----------------------------
(***************************************************************************)
(* Vitality Elite: the generative content orchestration layer.             *)
(*                                                                         *)
(*   SpecSvc   the request/response functions of services/geminiService.ts *)
(*             (getMealPlan, getWorkoutPlan, getGymRecommendations)        *)
(*             applied to backend responses.                               *)
(*   SpecVideo the demo view of components/WorkoutPlanner.tsx: handleOpenDemo,*)
(*             VIDEO_CACHE and the media operations of getExerciseVideo.   *)
(*   SpecVideoOp  the same with one operation polled past every milestone. *)
(*   Spec      components/MealPlanner.tsx: the MealImage instances of the  *)
(*             active day, SESSION_IMAGE_CACHE, the plan, image generation *)
(*             and image edits.  A handler, the render it causes and the   *)
(*             effects of that render are one step.                        *)
(*                                                                         *)
(* A response text is a sequence of JSON tokens; JSONParse is a recursive  *)
(* descent parser over it, so that malformed texts exist and are rejected  *)
(* the way JSON.parse rejects them (SyntaxError).                          *)
(***************************************************************************)
EXTENDS Integers, Sequences, FiniteSets, TLC

VARIABLES
    svc,                \* the last service call: [fn, out] (SpecSvc)
    unhandled,          \* rejections that left fetchPlans or fetchWorkouts
    chat,               \* ChatAssistant: messages, isTyping and its streams
    VIDEO_CACHE,        \* WorkoutPlanner.tsx:8, exercise name -> locator
    isDemoVisible,      \* WorkoutPlanner state, lines 121-125
    videoLoading,
    videoProgressMsg,
    currentVideoUrl,
    activeExercise,
    ops,                \* the getExerciseVideo invocations, in call order
    workout,            \* WorkoutPlanner's plan state and App's copy of it
    SESSION_IMAGE_CACHE,\* MealPlanner.tsx:9, meal name -> locator
    plans,              \* MealPlanner state, lines 93-121
    prepStrategy,
    activeDayIdx,
    loading,
    view,
    selectedMeal,
    isEditingImage,
    images,             \* the MealImage instance of each slot (key = slot)
    genCalls,           \* generateMealImage invocations so far, per meal name
    staleGens,          \* in-flight generations whose effect was cleaned up
    edits,              \* in-flight editMealImage calls
    editCalls,          \* editMealImage invocations so far
    fetches,            \* in-flight getMealPlan calls of fetchPlans
    fetchCalls,         \* fetchPlans invocations so far
    language,           \* the language prop (App.tsx:69)
    storedPlans         \* localStorage 'vitality_meal_plans': <<>> or <<plans>>

svcVars == <<svc, unhandled, chat>>
demoVars == <<VIDEO_CACHE, isDemoVisible, videoLoading, videoProgressMsg,
              currentVideoUrl, activeExercise, ops>>
videoVars == <<demoVars, workout>>
mealVars == <<SESSION_IMAGE_CACHE, plans, prepStrategy, activeDayIdx, loading, view,
              selectedMeal, isEditingImage, images, genCalls, staleGens, edits,
              editCalls, fetches, fetchCalls, language, storedPlans>>
vars == <<svc, unhandled, chat, VIDEO_CACHE, isDemoVisible, videoLoading, videoProgressMsg,
          currentVideoUrl, activeExercise, ops, workout,
          SESSION_IMAGE_CACHE, plans, prepStrategy, activeDayIdx, loading, view,
          selectedMeal, isEditingImage, images, genCalls, staleGens, edits,
          editCalls, fetches, fetchCalls, language, storedPlans>>

(***************************************************************************)
(* JSON values and JSON.parse                                              *)
(***************************************************************************)
JNull == [t |-> "null"]
JNum(n) == [t |-> "num", v |-> n]
JStr(s) == [t |-> "str", v |-> s]
JArr(seq) == [t |-> "arr", v |-> seq]
JObj(f) == [t |-> "obj", v |-> f]

\* Tokens of the texts the model feeds to JSON.parse.  Every other token
\* (a bare word such as not, json) is no JSON token.  A number token keeps
\* its text; the model never computes with it.
NumTokens == {"37.7", "-122.4", "4.5"}
\* A token of StrTokens stands for that word as a quoted JSON string.
StrTokens == {"days", "prepStrategy", "batchPrepTasks", "storageTips",
              "shoppingList", "day", "name", "lat", "lng", "groundingLinks",
              "Mon", "Tue", "Gym1", "Gym2", "Gym3", "task", "dayTitle", "Push"}

ParseFail == [ok |-> FALSE, v |-> JNull, next |-> 0]

RECURSIVE ParseValue(_, _)
RECURSIVE ParseElements(_, _, _)
RECURSIVE ParseMembers(_, _, _)

\* value := null | number | string | [ elements ] | { members }
ParseValue(toks, i) ==
    IF i > Len(toks) THEN ParseFail
    ELSE LET tok == toks[i] IN
         CASE tok = "null" -> [ok |-> TRUE, v |-> JNull, next |-> i + 1]
           [] tok \in NumTokens -> [ok |-> TRUE, v |-> JNum(tok), next |-> i + 1]
           [] tok \in StrTokens -> [ok |-> TRUE, v |-> JStr(tok), next |-> i + 1]
           [] tok = "[" ->
                IF i + 1 <= Len(toks) /\ toks[i + 1] = "]"
                THEN [ok |-> TRUE, v |-> JArr(<<>>), next |-> i + 2]
                ELSE ParseElements(toks, i + 1, <<>>)
           [] tok = "{" ->
                IF i + 1 <= Len(toks) /\ toks[i + 1] = "}"
                THEN [ok |-> TRUE, v |-> JObj(<<>>), next |-> i + 2]
                ELSE ParseMembers(toks, i + 1, <<>>)
           [] OTHER -> ParseFail

\* elements := value ( , value )* ]
ParseElements(toks, i, acc) ==
    LET r == ParseValue(toks, i) IN
    IF ~r.ok \/ r.next > Len(toks) THEN ParseFail
    ELSE IF toks[r.next] = "]"
         THEN [ok |-> TRUE, v |-> JArr(Append(acc, r.v)), next |-> r.next + 1]
    ELSE IF toks[r.next] = ","
         THEN ParseElements(toks, r.next + 1, Append(acc, r.v))
    ELSE ParseFail

\* members := string : value ( , string : value )* }   (a later key wins)
ParseMembers(toks, i, acc) ==
    IF i + 1 > Len(toks) \/ toks[i] \notin StrTokens \/ toks[i + 1] # ":"
    THEN ParseFail
    ELSE LET r == ParseValue(toks, i + 2)
             obj == IF r.ok THEN (toks[i] :> r.v) @@ acc ELSE acc
         IN  IF ~r.ok \/ r.next > Len(toks) THEN ParseFail
             ELSE IF toks[r.next] = "}"
                  THEN [ok |-> TRUE, v |-> JObj(obj), next |-> r.next + 1]
             ELSE IF toks[r.next] = ","
                  THEN ParseMembers(toks, r.next + 1, obj)
             ELSE ParseFail

\* JSON.parse(text): the value, or a SyntaxError when the text is not
\* exactly one JSON value.
JSONParse(text) ==
    LET r == ParseValue(text, 1) IN
    IF r.ok /\ r.next = Len(text) + 1
    THEN [kind |-> "value", v |-> r.v]
    ELSE [kind |-> "SyntaxError"]

(***************************************************************************)
(* Response texts                                                          *)
(***************************************************************************)
RECURSIVE JoinComma(_)
JoinComma(parts) ==
    IF Len(parts) = 0 THEN <<>>
    ELSE IF Len(parts) = 1 THEN parts[1]
    ELSE parts[1] \o <<",">> \o JoinComma(Tail(parts))

ArrText(items) == <<"[">> \o JoinComma(items) \o <<"]">>
Member(key, valueText) == <<key, ":">> \o valueText
ObjText(members) == <<"{">> \o JoinComma(members) \o <<"}">>
Truncated(text) == SubSeq(text, 1, Len(text) - 1)

DayText(label) == ObjText(<<Member("day", <<label>>)>>)
PrepText(tasks) ==
    ObjText(<<Member("batchPrepTasks", ArrText(tasks)),
              Member("storageTips", ArrText(<<>>)),
              Member("shoppingList", ArrText(<<>>))>>)

\* The days and prepStrategy members a meal-plan payload may carry; <<>> is
\* a member that is left out.
DaysMembers == {<<>>,
                <<Member("days", ArrText(<<>>))>>,
                <<Member("days", ArrText(<<DayText("Mon")>>))>>,
                <<Member("days", ArrText(<<DayText("Mon"), DayText("Tue")>>))>>}
PrepMembers == {<<>>,
                <<Member("prepStrategy", <<"null">>)>>,
                <<Member("prepStrategy", PrepText(<<>>))>>,
                <<Member("prepStrategy", PrepText(<<<<"task">>>>))>>,
                <<Member("prepStrategy",
                         ObjText(<<Member("batchPrepTasks", ArrText(<<>>))>>))>>}

NotJsonText == <<"not", "json">>
\* response.text is undefined or '': both are falsy in `text || fallback`.
NoText == <<>>

MealPlanTexts ==
    {ObjText(d \o p) : d \in DaysMembers, p \in PrepMembers}
    \cup {Truncated(ObjText(d \o p)) : d \in DaysMembers, p \in PrepMembers}
    \cup {NoText, NotJsonText, <<"null">>, ArrText(<<>>)}

WorkoutText(title) == ObjText(<<Member("dayTitle", <<title>>)>>)
WorkoutPlanTexts ==
    {NoText, NotJsonText, <<"null">>, ObjText(<<>>), ArrText(<<>>),
     ArrText(<<WorkoutText("Push")>>),
     ArrText(<<WorkoutText("Push"), WorkoutText("Push")>>),
     Truncated(ArrText(<<WorkoutText("Push")>>))}

\* A structured-generation response: generateContent rejected (transport
\* failure), or resolved with a response carrying text.
Responses(texts) ==
    {[transport |-> "ok", text |-> t] : t \in texts}
    \cup {[transport |-> "error", text |-> NoText]}

(***************************************************************************)
(* getMealPlan, getWorkoutPlan                                             *)
(***************************************************************************)
Return(v) == [kind |-> "return", value |-> v]
Throw(e) == [kind |-> "throw", error |-> e]

\* The literal of geminiService.ts:167.
MealPlanFallbackText ==
    ObjText(<<Member("days", ArrText(<<>>)), Member("prepStrategy", PrepText(<<>>))>>)
WorkoutFallbackText == ArrText(<<>>)

\* JSON.parse(response.text || fallback), with nothing around it.
ParseOrFallback(text, fallback) ==
    LET r == JSONParse(IF text = NoText THEN fallback ELSE text) IN
    IF r.kind = "value" THEN Return(r.v) ELSE Throw("SyntaxError")

getMealPlan(resp) ==
    IF resp.transport = "error" THEN Throw("TransportError")
    ELSE ParseOrFallback(resp.text, MealPlanFallbackText)

getWorkoutPlan(resp) ==
    IF resp.transport = "error" THEN Throw("TransportError")
    ELSE ParseOrFallback(resp.text, WorkoutFallbackText)

(***************************************************************************)
(* getGymRecommendations                                                   *)
(***************************************************************************)
\* A grounding chunk: chunk.maps?.uri, chunk.maps?.title, chunk.web?.uri,
\* chunk.web?.title; "" is a part that is missing (undefined and '' are
\* both falsy where the code reads them).
Chunk(mu, mt, wu, wt) == [mapsUri |-> mu, mapsTitle |-> mt, webUri |-> wu, webTitle |-> wt]
ChunkPool ==
    {Chunk("maps://a", "Gym A", "", ""),
     Chunk("", "", "https://b", ""),
     Chunk("maps://c", "", "https://c", "Gym C"),
     Chunk("", "Only a title", "", ""),
     Chunk("", "", "", "")}

MaxChunks == 4

RECURSIVE SeqsUpTo(_, _)
SeqsUpTo(S, n) ==
    IF n = 0 THEN {<<>>}
    ELSE LET shorter == SeqsUpTo(S, n - 1) IN
         shorter \cup {Append(q, x) : q \in shorter, x \in S}

\* geminiService.ts:200
HasUri(chunk) == chunk.mapsUri # "" \/ chunk.webUri # ""

\* geminiService.ts:201-204
ToGroundingLink(chunk) ==
    [uri |-> IF chunk.mapsUri # "" THEN chunk.mapsUri ELSE chunk.webUri,
     title |-> IF chunk.mapsTitle # "" THEN chunk.mapsTitle
               ELSE IF chunk.webTitle # "" THEN chunk.webTitle
               ELSE "View Source"]

\* groundingChunks.filter(chunk => chunk.maps?.uri || chunk.web?.uri)
RECURSIVE FilterHasUri(_)
FilterHasUri(chunks) ==
    IF chunks = <<>> THEN <<>>
    ELSE IF HasUri(Head(chunks)) THEN <<Head(chunks)>> \o FilterHasUri(Tail(chunks))
    ELSE FilterHasUri(Tail(chunks))

\* Mutant of GroundingLinks: the chunks are cut to three before the filter.
GroundingLinks_TruncateFirst(groundingChunks) ==
    LET kept == FilterHasUri(SubSeq(groundingChunks, 1,
                    IF Len(groundingChunks) < 3 THEN Len(groundingChunks) ELSE 3)) IN
    [i \in 1..Len(kept) |-> ToGroundingLink(kept[i])]

\* geminiService.ts:198-204
GroundingLinks(groundingChunks) ==
    LET kept == FilterHasUri(groundingChunks) IN
    [i \in 1..Len(kept) |-> ToGroundingLink(kept[i])]

\* Mutant of SliceFirst: the truncation is lost.
SliceFirst_NoTruncation(seq, n) == seq

\* Array.prototype.slice(0, n)
SliceFirst(seq, n) == SubSeq(seq, 1, IF Len(seq) < n THEN Len(seq) ELSE n)

\* { ...gym }: the own properties of an object; null and numbers have none.
\* (Strings and arrays, which spread to index keys, are not elements of the
\* modelled payloads.)
SpreadProps(v) ==
    CASE v.t = "obj" -> v.v
      [] v.t \in {"null", "num"} -> <<>>

\* geminiService.ts:236-239: { ...gym, groundingLinks: groundingLinks.slice(0, 3) }
WithGroundingLinks(gym, groundingLinks) ==
    ("groundingLinks" :> SliceFirst(groundingLinks, 3)) @@ SpreadProps(gym)

\* Mutant of ParseGyms: the catch rethrows instead of returning [].
ParseGyms_Rethrow(text, groundingLinks) ==
    LET r == JSONParse(IF text = NoText THEN <<"[", "]">> ELSE text) IN
    IF r.kind = "value" /\ r.v.t = "arr"
    THEN [kind |-> "return",
          value |-> [i \in 1..Len(r.v.v) |->
                        ("groundingLinks" :> SubSeq(groundingLinks, 1,
                            IF Len(groundingLinks) < 3 THEN Len(groundingLinks) ELSE 3))
                        @@ (IF r.v.v[i].t = "obj" THEN r.v.v[i].v ELSE <<>>)]]
    ELSE [kind |-> "throw", error |-> "SyntaxError"]

\* geminiService.ts:234-243: the try block.  parsedGyms.map is a TypeError
\* unless the parsed value is an array; both errors reach the catch.
ParseGyms(text, groundingLinks) ==
    LET r == JSONParse(IF text = NoText THEN ArrText(<<>>) ELSE text) IN
    IF r.kind = "value" /\ r.v.t = "arr"
    THEN Return([i \in 1..Len(r.v.v) |-> WithGroundingLinks(r.v.v[i], groundingLinks)])
    ELSE Return(<<>>)

\* stage1: the grounded discovery response (or its rejection); stage2: the
\* extraction response (or its rejection).  Both awaits are outside the try.
getGymRecommendations(stage1, stage2) ==
    IF stage1.transport = "error" THEN Throw("TransportError")
    ELSE IF stage2.transport = "error" THEN Throw("TransportError")
    ELSE ParseGyms(stage2.text, GroundingLinks(stage1.groundingChunks))

GymText(name, lat, lng) ==
    ObjText(<<Member("name", <<name>>)>>
            \o (IF lat = <<>> THEN <<>> ELSE <<Member("lat", lat)>>)
            \o (IF lng = <<>> THEN <<>> ELSE <<Member("lng", lng)>>))

Gym1 == GymText("Gym1", <<"37.7">>, <<"-122.4">>)
Gym2 == GymText("Gym2", <<"37.7">>, <<"-122.4">>)
Gym3 == GymText("Gym3", <<"37.7">>, <<"-122.4">>)
GymNullCoords == GymText("Gym2", <<"null">>, <<"null">>)
GymNoCoords == GymText("Gym2", <<>>, <<>>)
GymNoLng == GymText("Gym3", <<"37.7">>, <<>>)
GymTextCoords == GymText("Gym3", <<"lat">>, <<"lng">>)
GymOwnLinks ==
    ObjText(<<Member("name", <<"Gym1">>), Member("lat", <<"37.7">>),
              Member("lng", <<"4.5">>), Member("groundingLinks", <<"null">>)>>)

GymTexts ==
    {NoText, NotJsonText, <<"null">>, <<"4.5">>, ObjText(<<>>), Gym1,
     ArrText(<<>>), ArrText(<<Gym1>>), ArrText(<<Gym1, Gym2, Gym3>>),
     ArrText(<<Gym1, GymNullCoords>>), ArrText(<<GymNoCoords, Gym1>>),
     ArrText(<<GymNoLng>>), ArrText(<<GymTextCoords>>), ArrText(<<GymOwnLinks>>),
     ArrText(<<<<"null">>, Gym1>>), ArrText(<<<<"4.5">>>>),
     Truncated(ArrText(<<Gym1>>)), Truncated(ArrText(<<Gym1, Gym2>>))}

\* The stage-1 response: free text and grounding chunks (candidates or
\* groundingMetadata missing reads as no chunks, line 198).
Stage1Responses ==
    {[transport |-> "ok", groundingChunks |-> c] : c \in SeqsUpTo(ChunkPool, MaxChunks)}
    \cup {[transport |-> "error", groundingChunks |-> <<>>]}

(***************************************************************************)
(* getGymRecommendations, request by request                               *)
(***************************************************************************)
\* JSON.stringify of a grounding chunk: the members that are present.
StringifyChunk(chunk) ==
    (IF chunk.mapsUri # "" \/ chunk.mapsTitle # ""
     THEN <<"maps", chunk.mapsUri, chunk.mapsTitle>> ELSE <<>>)
    \o (IF chunk.webUri # "" \/ chunk.webTitle # ""
        THEN <<"web", chunk.webUri, chunk.webTitle>> ELSE <<>>)

\* Lines 182-196: the grounded discovery request.
DiscoveryRequest == [model |-> "gemini-2.5-flash", text |-> <<>>, context |-> <<>>]

\* Mutant of ExtractionRequest: the grounding context is built from the
\* chunks that passed the filter of line 200.
ExtractionRequest_Filtered(text, groundingChunks) ==
    [model |-> "gemini-3-flash-preview",
     text |-> text,
     context |-> [i \in 1..Len(FilterHasUri(groundingChunks)) |->
                     StringifyChunk(FilterHasUri(groundingChunks)[i])]]

\* Lines 206-232: the extraction request; its contents interpolate
\* response.text and JSON.stringify(groundingChunks).
ExtractionRequest(text, groundingChunks) ==
    [model |-> "gemini-3-flash-preview",
     text |-> text,
     context |-> [i \in 1..Len(groundingChunks) |-> StringifyChunk(groundingChunks[i])]]

\* response.text of the discovery response as the template renders it; the
\* getter answers undefined when the response has no text part.
Stage1Texts == {<<"Gym1", "is", "nearby">>, <<"undefined">>}
Stage2Sample == {ArrText(<<Gym1>>), NotJsonText}

(***************************************************************************)
(* generateMealImage, editMealImage                                        *)
(***************************************************************************)
\* A part of a candidate's content: text, or inline data.
TextPart == [inlineData |-> FALSE, mimeType |-> "", data |-> ""]
PngPart == [inlineData |-> TRUE, mimeType |-> "image/png", data |-> "AAAA"]
JpegPart == [inlineData |-> TRUE, mimeType |-> "image/jpeg", data |-> "BBBB"]
MaxParts == 2

\* A candidate whose content (with its parts) is present, and one without.
Candidate(parts) == [content |-> TRUE, parts |-> parts]
NoContent == [content |-> FALSE, parts |-> <<>>]

\* What generateContent can answer to an image request: the call raises, no
\* candidate (a blocked prompt), a candidate without content, or a candidate
\* with some parts.
ImageResponses ==
    {[transport |-> "error", candidates |-> <<>>]}
    \cup {[transport |-> "ok", candidates |-> <<>>],
          [transport |-> "ok", candidates |-> <<NoContent>>]}
    \cup {[transport |-> "ok", candidates |-> <<Candidate(parts)>>] :
             parts \in SeqsUpTo({TextPart, PngPart, JpegPart}, MaxParts)}

\* A locator is the sequence of the pieces of its string; '' is empty.
EmptyLocator == <<>>
\* Lines 62 and 89.
DataUrl(part) == <<"data:", part.mimeType, ";base64,", part.data>>
Base64Images == {DataUrl(PngPart), DataUrl(JpegPart)}

\* parts.find(p => p.inlineData): the position of the first such part, 0
\* for undefined.
FindInlineData(parts) ==
    IF \E k \in 1..Len(parts) : parts[k].inlineData
    THEN CHOOSE k \in 1..Len(parts) :
            /\ parts[k].inlineData
            /\ \A j \in 1..(k - 1) : ~parts[j].inlineData
    ELSE 0

\* Lines 60 and 87: response.candidates[0].content.parts is dereferenced
\* with no test.
PartsReadable(resp) == Len(resp.candidates) > 0 /\ resp.candidates[1].content

\* Lines 39-65.
generateMealImage(resp) ==
    IF resp.transport = "error" THEN Throw("NetworkError")
    ELSE IF ~PartsReadable(resp) THEN Throw("TypeError")
    ELSE LET parts == resp.candidates[1].parts
             k == FindInlineData(parts)
         IN IF k # 0 THEN Return(DataUrl(parts[k])) ELSE Return(EmptyLocator)

\* Lines 67-92.
editMealImage(base64Image, resp) ==
    IF resp.transport = "error" THEN Throw("NetworkError")
    ELSE IF ~PartsReadable(resp) THEN Throw("TypeError")
    ELSE LET parts == resp.candidates[1].parts
             k == FindInlineData(parts)
         IN IF k # 0 THEN Return(DataUrl(parts[k])) ELSE Return(base64Image)

(***************************************************************************)
(* updateMealImageInState (MealPlanner.tsx:156-170) on a full plan         *)
(***************************************************************************)
\* A meal of types.ts with one of its other fields, and the absent meal.
FullMeal(name, url) == [name |-> name, calories |-> 400, imageUrl |-> url]
AbsentMeal == [name |-> "absent", calories |-> 0, imageUrl |-> "none"]
\* A day; snacks is an array of meals or, isArray false, something else.
FullDay(label, b, l, d, isArray, snacks) ==
    [day |-> label, breakfast |-> b, lunch |-> l, dinner |-> d,
     snacks |-> [isArray |-> isArray, items |-> snacks]]
DayPool ==
    {FullDay("Mon", FullMeal("Oats", "none"), FullMeal("Salmon", "old1"),
             FullMeal("Rice", "old2"), TRUE,
             <<FullMeal("Salmon", "none"), FullMeal("Rice", "old2"), FullMeal("Oats", "old1")>>),
     FullDay("Tue", FullMeal("Salmon", "old1"), FullMeal("Oats", "old1"), AbsentMeal, TRUE, <<>>),
     FullDay("Wed", AbsentMeal, FullMeal("Rice", "none"), FullMeal("Oats", "none"), FALSE, <<>>)}
MaxDays == 2
ReplaceNames == {"Oats", "Salmon", "Curry"}
CacheNames == {"Oats", "Salmon", "Rice", "Curry"}
CachePool ==
    {[k \in CacheNames |-> "none"],
     [k \in CacheNames |-> IF k \in {"Oats", "Rice"} THEN "old1" ELSE "none"]}

\* Line 161.
UpdateMeal(m, mealName, url) ==
    IF m # AbsentMeal /\ m.name = mealName THEN [m EXCEPT !.imageUrl = url] ELSE m

\* Mutant of updateMealImageInState: only the two snacks of the timeline
\* are updated.
updateMealImageInState_TimelineOnly(cache, pl, mealName, url) ==
    [cache |-> [cache EXCEPT ![mealName] = url],
     plans |-> [d \in 1..Len(pl) |->
        [day |-> pl[d].day,
         breakfast |-> UpdateMeal(pl[d].breakfast, mealName, url),
         lunch |-> UpdateMeal(pl[d].lunch, mealName, url),
         dinner |-> UpdateMeal(pl[d].dinner, mealName, url),
         snacks |-> [isArray |-> TRUE,
                     items |-> IF pl[d].snacks.isArray
                               THEN [i \in 1..Len(pl[d].snacks.items) |->
                                       IF i <= 2
                                       THEN UpdateMeal(pl[d].snacks.items[i], mealName, url)
                                       ELSE pl[d].snacks.items[i]]
                               ELSE <<>>]]]]

\* Lines 156-170: the cache after line 158 and the plan setPlans installs.
updateMealImageInState(cache, pl, mealName, url) ==
    [cache |-> [cache EXCEPT ![mealName] = url],
     plans |-> [d \in 1..Len(pl) |->
        [day |-> pl[d].day,
         breakfast |-> UpdateMeal(pl[d].breakfast, mealName, url),
         lunch |-> UpdateMeal(pl[d].lunch, mealName, url),
         dinner |-> UpdateMeal(pl[d].dinner, mealName, url),
         snacks |-> [isArray |-> TRUE,
                     items |-> IF pl[d].snacks.isArray
                               THEN [i \in 1..Len(pl[d].snacks.items) |->
                                       UpdateMeal(pl[d].snacks.items[i], mealName, url)]
                               ELSE <<>>]]]]

(***************************************************************************)
(* Dashboard: macro targets                                                *)
(***************************************************************************)
Goals == {"Weight Loss", "Muscle Gain", "Maintenance", "Athletic Performance"}
\* profile.weight comes from a number input without min or max
\* (Profile.tsx:140-146); whole kilograms from 0 are modelled.
MaxWeight == 150
Weights == 0..MaxWeight

\* Math.round(weight * tenths / 10): the nearest integer, halves upwards.
RoundTenths(weight, tenths) == (2 * weight * tenths + 10) \div 20

\* Dashboard.tsx:63-83.  The factors are held in tenths (3.5 is 35).
goals(weight, goal) ==
    LET factors ==
          CASE goal = "Weight Loss" -> [protein |-> 22, carbs |-> 20, fats |-> 6]
            [] goal = "Muscle Gain" -> [protein |-> 25, carbs |-> 50, fats |-> 10]
            [] goal = "Athletic Performance" -> [protein |-> 20, carbs |-> 60, fats |-> 9]
            [] OTHER -> [protein |-> 20, carbs |-> 35, fats |-> 8]
    IN [protein |-> RoundTenths(weight, factors.protein),
        carbs |-> RoundTenths(weight, factors.carbs),
        fats |-> RoundTenths(weight, factors.fats)]

(***************************************************************************)
(* SpecSvc: the service functions applied to every response of the pools   *)
(***************************************************************************)
\* A call is made when no call is pending; its record is kept until the
\* caller has consumed it.
Idle == [fn |-> "none"]

CallGetMealPlan ==
    /\ svc = Idle
    /\ \E resp \in Responses(MealPlanTexts) :
        svc' = [fn |-> "getMealPlan", resp |-> resp, out |-> getMealPlan(resp)]
    /\ UNCHANGED <<videoVars, mealVars, unhandled, chat>>

CallGetWorkoutPlan ==
    /\ svc = Idle
    /\ \E resp \in Responses(WorkoutPlanTexts) :
        svc' = [fn |-> "getWorkoutPlan", resp |-> resp, out |-> getWorkoutPlan(resp)]
    /\ UNCHANGED <<videoVars, mealVars, unhandled, chat>>

CallGetGymRecommendations ==
    /\ svc = Idle
    /\ \E stage1 \in Stage1Responses, stage2 \in Responses(GymTexts) :
        svc' = [fn |-> "getGymRecommendations", stage1 |-> stage1, stage2 |-> stage2,
                out |-> getGymRecommendations(stage1, stage2)]
    /\ UNCHANGED <<videoVars, mealVars, unhandled, chat>>

CallGenerateMealImage ==
    /\ svc = Idle
    /\ \E resp \in ImageResponses :
        svc' = [fn |-> "generateMealImage", resp |-> resp, out |-> generateMealImage(resp)]
    /\ UNCHANGED <<videoVars, mealVars, unhandled, chat>>

CallEditMealImage ==
    /\ svc = Idle
    /\ \E base64Image \in Base64Images, resp \in ImageResponses :
        svc' = [fn |-> "editMealImage", base64Image |-> base64Image, resp |-> resp,
                out |-> editMealImage(base64Image, resp)]
    /\ UNCHANGED <<videoVars, mealVars, unhandled, chat>>

CallUpdateMealImageInState ==
    /\ svc = Idle
    /\ \E cache \in CachePool, pl \in SeqsUpTo(DayPool, MaxDays),
          mealName \in ReplaceNames, url \in {"new", ""} :
        svc' = [fn |-> "updateMealImageInState", cache |-> cache, plans |-> pl,
                mealName |-> mealName, url |-> url,
                out |-> updateMealImageInState(cache, pl, mealName, url)]
    /\ UNCHANGED <<videoVars, mealVars, unhandled, chat>>

\* Line 182: the call starts by awaiting the discovery request.
GymDiscoveryIssued ==
    /\ svc = Idle
    /\ svc' = [fn |-> "getGymRecommendations:requests", pc |-> "stage1",
               requests |-> <<DiscoveryRequest>>,
               stage1 |-> [transport |-> "pending", text |-> <<>>, groundingChunks |-> <<>>],
               out |-> Throw("pending")]
    /\ UNCHANGED <<videoVars, mealVars, unhandled, chat>>

\* Lines 182-232: the discovery response arrives; the extraction request is
\* built from it and awaited.
GymDiscoveryReturns ==
    /\ svc # Idle /\ svc.fn = "getGymRecommendations:requests" /\ svc.pc = "stage1"
    /\ \E text \in Stage1Texts, chunks \in SeqsUpTo(ChunkPool, MaxChunks) :
         svc' = [svc EXCEPT
                   !.pc = "stage2",
                   !.stage1 = [transport |-> "ok", text |-> text, groundingChunks |-> chunks],
                   !.requests = Append(@, ExtractionRequest(text, chunks))]
    /\ UNCHANGED <<videoVars, mealVars, unhandled, chat>>

\* Line 182: the discovery request raises; the await is outside the try.
GymDiscoveryRaises ==
    /\ svc # Idle /\ svc.fn = "getGymRecommendations:requests" /\ svc.pc = "stage1"
    /\ svc' = [svc EXCEPT !.pc = "done",
                          !.stage1 = [transport |-> "error", text |-> <<>>,
                                      groundingChunks |-> <<>>],
                          !.out = Throw("TransportError")]
    /\ UNCHANGED <<videoVars, mealVars, unhandled, chat>>

\* Lines 234-243: the extraction response arrives.
GymExtractionReturns ==
    /\ svc # Idle /\ svc.fn = "getGymRecommendations:requests" /\ svc.pc = "stage2"
    /\ \E text \in Stage2Sample :
         svc' = [svc EXCEPT
                   !.pc = "done",
                   !.out = ParseGyms(text, GroundingLinks(svc.stage1.groundingChunks))]
    /\ UNCHANGED <<videoVars, mealVars, unhandled, chat>>

\* Line 206: the extraction request raises.
GymExtractionRaises ==
    /\ svc # Idle /\ svc.fn = "getGymRecommendations:requests" /\ svc.pc = "stage2"
    /\ svc' = [svc EXCEPT !.pc = "done", !.out = Throw("TransportError")]
    /\ UNCHANGED <<videoVars, mealVars, unhandled, chat>>

CallGoals ==
    /\ svc = Idle
    /\ \E weight \in Weights, goal \in Goals :
        svc' = [fn |-> "goals", weight |-> weight, goal |-> goal,
                out |-> Return(goals(weight, goal))]
    /\ UNCHANGED <<videoVars, mealVars, unhandled, chat>>

ConsumeResult ==
    /\ svc # Idle
    /\ svc.fn = "getGymRecommendations:requests" => svc.pc = "done"
    /\ svc' = Idle
    /\ UNCHANGED <<videoVars, mealVars, unhandled, chat>>

NextSvc ==
    \/ CallGetMealPlan
    \/ CallGetWorkoutPlan
    \/ CallGetGymRecommendations
    \/ CallGenerateMealImage
    \/ CallEditMealImage
    \/ CallUpdateMealImageInState
    \/ CallGoals
    \/ GymDiscoveryIssued
    \/ GymDiscoveryReturns
    \/ GymDiscoveryRaises
    \/ GymExtractionReturns
    \/ GymExtractionRaises
    \/ ConsumeResult

(***************************************************************************)
(* getExerciseVideo: the media operation                                   *)
(***************************************************************************)
MsgLab == "Initializing Simulation Lab..."
MsgInit == "Initializing Bio-Visual Simulation..."
MsgAccess == "Accessing Neural Compute Pipeline..."
MsgSynth == "Synthesizing Movement Dynamics..."
MsgMap == "Mapping Muscle Group Activation..."
MsgRefine == "Refining Biomechanical Precision..."
MsgRender == "Rendering Atmospheric Lighting..."
MsgFinal == "Finalizing Visual Sequence..."
MsgComplete == "Simulation Complete. Finalizing Stream."
MsgError == "Network Protocol Error. Please Retry."

Exercises == {"Squat", "Press"}
\* The video uri the backend exposes on completion; NoUri is a done
\* operation whose response carries none.
NoUri == "undefined"
BackendUris == {"https://v/1", "https://v/2", NoUri}

MaxPolls == 15       \* status calls of the operation of SpecVideoOp
MaxOps == 2          \* getExerciseVideo invocations in a run of SpecVideo
MaxDemoPolls == 2    \* status calls of each operation of SpecVideo

\* A locator is a tuple of string parts (WithKey); the empty tuple is the
\* null state / the missing cache entry.
NoLocator == <<>>
NoExercise == "none"    \* activeExercise null (line 125)

\* What an invocation asks of the backend and of the timer, in order.
PollDelayMs == 8000
CreateCall == [type |-> "generateVideos", ms |-> 0]
TimerStart == [type |-> "setTimeout", ms |-> PollDelayMs]
StatusCall == [type |-> "getVideosOperation", ms |-> 0]

\* `${downloadLink}&key=${process.env.API_KEY}` (line 325)
WithKey(downloadLink) == <<downloadLink, "&key=", "API_KEY">>

\* Mutant of PollMilestones: poll 4 repeats the milestone of poll 2.
PollMilestones_Repeat(pollCount) ==
    IF pollCount = 2 THEN <<MsgSynth>>
    ELSE IF pollCount = 4 THEN <<MsgSynth>>
    ELSE IF pollCount = 7 THEN <<MsgRefine>>
    ELSE IF pollCount = 10 THEN <<MsgRender>>
    ELSE IF pollCount = 14 THEN <<MsgFinal>>
    ELSE <<>>

\* Lines 313-317: the notifications of one loop iteration.
PollMilestones(pollCount) ==
    (IF pollCount = 2 THEN <<MsgSynth>> ELSE <<>>)
    \o (IF pollCount = 4 THEN <<MsgMap>> ELSE <<>>)
    \o (IF pollCount = 7 THEN <<MsgRefine>> ELSE <<>>)
    \o (IF pollCount = 10 THEN <<MsgRender>> ELSE <<>>)
    \o (IF pollCount = 14 THEN <<MsgFinal>> ELSE <<>>)

\* An invocation of getExerciseVideo.  pc is where it is suspended:
\*   "submit"  awaiting generateVideos            (line 296)
\*   "delay"   awaiting the 8000 ms timer         (line 319)
\*   "status"  awaiting getVideosOperation        (line 320)
\*   "resolved" / "rejected"  the promise settled
\* progress is the sequence of messages passed to onProgress, calls the
\* backend calls issued and timers started.
NewOp(exercise) ==
    [exercise |-> exercise, pc |-> "submit", pollCount |-> 0,
     progress |-> <<MsgInit>>, result |-> NoLocator, calls |-> <<CreateCall>>]

\* Mutant of LoopTest: the status call is issued without the delay.
LoopTest_NoDelay(op, done, uri) ==
    IF done
    THEN [op EXCEPT !.pc = "resolved",
                    !.progress = @ \o <<MsgComplete>>,
                    !.result = WithKey(uri)]
    ELSE [op EXCEPT !.pc = "status",
                    !.pollCount = @ + 1,
                    !.progress = @ \o PollMilestones(op.pollCount + 1),
                    !.calls = Append(@, StatusCall)]

\* Mutant of LoopTest: the invocation gives up after ten polls.
LoopTest_Deadline(op, done, uri) ==
    IF done
    THEN [op EXCEPT !.pc = "resolved",
                    !.progress = @ \o <<MsgComplete>>,
                    !.result = WithKey(uri)]
    ELSE IF op.pollCount >= 10
    THEN [op EXCEPT !.pc = "rejected"]
    ELSE [op EXCEPT !.pc = "delay",
                    !.pollCount = @ + 1,
                    !.progress = @ \o PollMilestones(op.pollCount + 1),
                    !.calls = Append(@, TimerStart)]

\* Mutant of LoopTest: an operation that is not done is submitted again.
LoopTest_Resubmit(op, done, uri) ==
    IF done
    THEN [op EXCEPT !.pc = "resolved",
                    !.progress = @ \o <<MsgComplete>>,
                    !.result = WithKey(uri)]
    ELSE [op EXCEPT !.pc = "submit",
                    !.pollCount = @ + 1,
                    !.progress = @ \o PollMilestones(op.pollCount + 1),
                    !.calls = Append(@, TimerStart)]

\* Lines 311-321 from the loop test, given the operation the backend just
\* returned: leave the loop and resolve, or count, notify and start the delay.
LoopTest(op, done, uri) ==
    IF done
    THEN [op EXCEPT !.pc = "resolved",
                    !.progress = @ \o <<MsgComplete>>,
                    !.result = WithKey(uri)]
    ELSE [op EXCEPT !.pc = "delay",
                    !.pollCount = @ + 1,
                    !.progress = @ \o PollMilestones(op.pollCount + 1),
                    !.calls = Append(@, TimerStart)]

\* Line 309-310 after generateVideos returned, then the loop.
AfterSubmit(op, done, uri) ==
    LoopTest([op EXCEPT !.progress = @ \o <<MsgAccess>>], done, uri)

Last(seq) == seq[Len(seq)]

(***************************************************************************)
(* WorkoutPlanner: handleOpenDemo and the demo view                        *)
(***************************************************************************)
InitVideo ==
    /\ VIDEO_CACHE = [e \in Exercises |-> NoLocator]
    /\ isDemoVisible = FALSE
    /\ videoLoading = FALSE
    /\ videoProgressMsg = ""
    /\ currentVideoUrl = NoLocator
    /\ activeExercise = NoExercise
    /\ ops = <<>>

\* Mutant of Settle: a failed invocation leaves a cache entry behind.
Settle_CacheOnFailure(op) ==
    IF op.pc = "resolved"
    THEN /\ VIDEO_CACHE' = [VIDEO_CACHE EXCEPT ![op.exercise] = op.result]
         /\ currentVideoUrl' = op.result
         /\ videoProgressMsg' = Last(op.progress)
         /\ videoLoading' = FALSE
    ELSE /\ op.pc = "rejected"
         /\ videoProgressMsg' = MsgError
         /\ videoLoading' = FALSE
         /\ VIDEO_CACHE' = [VIDEO_CACHE EXCEPT ![op.exercise] = WithKey(NoUri)]
         /\ UNCHANGED currentVideoUrl

\* The continuation of handleOpenDemo after `await getExerciseVideo`
\* (lines 164-169), given the settled invocation; the onProgress calls the
\* invocation made in this step have set videoProgressMsg before.
Settle(op) ==
    IF op.pc = "resolved"
    THEN /\ VIDEO_CACHE' = [VIDEO_CACHE EXCEPT ![op.exercise] = op.result]
         /\ currentVideoUrl' = op.result
         /\ videoProgressMsg' = Last(op.progress)
         /\ videoLoading' = FALSE
    ELSE /\ op.pc = "rejected"
         /\ videoProgressMsg' = MsgError
         /\ videoLoading' = FALSE
         /\ UNCHANGED <<VIDEO_CACHE, currentVideoUrl>>

\* One step of invocation i that ends in newOp: its notifications reach
\* setVideoProgressMsg, and a settled promise resumes handleOpenDemo.
Advance(i, newOp) ==
    /\ ops' = [ops EXCEPT ![i] = newOp]
    /\ IF newOp.pc \in {"resolved", "rejected"}
       THEN Settle(newOp)
       ELSE /\ videoProgressMsg' =
                  (IF Len(newOp.progress) > Len(ops[i].progress)
                   THEN Last(newOp.progress) ELSE videoProgressMsg)
            /\ UNCHANGED <<VIDEO_CACHE, currentVideoUrl, videoLoading>>
    /\ UNCHANGED <<isDemoVisible, activeExercise, svcVars, mealVars, workout>>

\* Mutant of OpenDemo: the cache is not consulted.
OpenDemo_AlwaysGenerate(exercise, maxOps) ==
    /\ ~isDemoVisible
    /\ activeExercise' = exercise
    /\ isDemoVisible' = TRUE
    /\ Len(ops) < maxOps
    /\ videoLoading' = TRUE
    /\ videoProgressMsg' = MsgInit
    /\ ops' = Append(ops, NewOp(exercise))
    /\ UNCHANGED currentVideoUrl
    /\ UNCHANGED <<VIDEO_CACHE, svcVars, mealVars, workout>>

\* handleOpenDemo (lines 152-163) up to its first suspension.  The demo view
\* covers the exercise list, so the button is reachable only while it is closed.
OpenDemo(exercise, maxOps) ==
    /\ ~isDemoVisible
    /\ activeExercise' = exercise
    /\ isDemoVisible' = TRUE
    /\ IF VIDEO_CACHE[exercise] # NoLocator
       THEN /\ currentVideoUrl' = VIDEO_CACHE[exercise]
            /\ videoLoading' = FALSE
            /\ UNCHANGED <<videoProgressMsg, ops>>
       ELSE /\ Len(ops) < maxOps
            /\ videoLoading' = TRUE
            /\ videoProgressMsg' = MsgInit
            /\ ops' = Append(ops, NewOp(exercise))
            /\ UNCHANGED currentVideoUrl
    /\ UNCHANGED <<VIDEO_CACHE, svcVars, mealVars, workout>>

\* The close button of the demo view (line 319).
CloseDemo ==
    /\ isDemoVisible
    /\ isDemoVisible' = FALSE
    /\ currentVideoUrl' = NoLocator
    /\ videoLoading' = FALSE
    /\ UNCHANGED <<VIDEO_CACHE, videoProgressMsg, activeExercise, ops, svcVars, mealVars, workout>>

\* The Confirm Technique button (line 390).
ConfirmTechnique ==
    /\ isDemoVisible
    /\ isDemoVisible' = FALSE
    /\ currentVideoUrl' = NoLocator
    /\ UNCHANGED <<VIDEO_CACHE, videoLoading, videoProgressMsg, activeExercise, ops, svcVars,
                   mealVars, workout>>

\* generateVideos returns an operation, done or not.
SubmitReturns(i) ==
    /\ ops[i].pc = "submit"
    /\ \/ Advance(i, AfterSubmit(ops[i], FALSE, NoUri))
       \/ \E uri \in BackendUris : Advance(i, AfterSubmit(ops[i], TRUE, uri))

\* generateVideos or getVideosOperation raises.
BackendRaises(i) ==
    /\ ops[i].pc \in {"submit", "status"}
    /\ Advance(i, [ops[i] EXCEPT !.pc = "rejected"])

\* The timer of line 319 fires: the status call of line 320 is issued.
DelayElapses(i) ==
    /\ ops[i].pc = "delay"
    /\ Advance(i, [ops[i] EXCEPT !.pc = "status", !.calls = Append(@, StatusCall)])

\* getVideosOperation returns an operation, done or not.
StatusReturns(i, maxPolls) ==
    /\ ops[i].pc = "status"
    /\ \/ /\ ops[i].pollCount < maxPolls
          /\ Advance(i, LoopTest(ops[i], FALSE, NoUri))
       \/ \E uri \in BackendUris : Advance(i, LoopTest(ops[i], TRUE, uri))

\* The demo view with several invocations, each polled a few times.
NextVideo ==
    \/ \E e \in Exercises : OpenDemo(e, MaxOps)
    \/ CloseDemo
    \/ ConfirmTechnique
    \/ \E i \in 1..Len(ops) : SubmitReturns(i)
    \/ \E i \in 1..Len(ops) : BackendRaises(i)
    \/ \E i \in 1..Len(ops) : DelayElapses(i)
    \/ \E i \in 1..Len(ops) : StatusReturns(i, MaxDemoPolls)

\* One invocation, polled until every milestone has been passed.
NextVideoOp ==
    \/ \E e \in Exercises : OpenDemo(e, 1)
    \/ CloseDemo
    \/ ConfirmTechnique
    \/ \E i \in 1..Len(ops) : SubmitReturns(i)
    \/ \E i \in 1..Len(ops) : BackendRaises(i)
    \/ \E i \in 1..Len(ops) : DelayElapses(i)
    \/ \E i \in 1..Len(ops) : StatusReturns(i, MaxPolls)

(***************************************************************************)
(* Properties of the service functions (SpecSvc)                           *)
(***************************************************************************)
PrepFields == {"batchPrepTasks", "storageTips", "shoppingList"}

HasField(v, k) == v.t = "obj" /\ k \in DOMAIN v.v

WellFormedPrep(p) ==
    /\ p.t = "obj"
    /\ \A k \in PrepFields : k \in DOMAIN p.v /\ p.v[k].t = "arr"

PopulatedPlan(v) ==
    /\ HasField(v, "days") /\ v.v["days"].t = "arr" /\ Len(v.v["days"].v) >= 1
    /\ HasField(v, "prepStrategy") /\ WellFormedPrep(v.v["prepStrategy"])

CanonicalEmptyPlan ==
    JObj(("days" :> JArr(<<>>))
         @@ ("prepStrategy" :> JObj([k \in PrepFields |-> JArr(<<>>)])))

Unparseable(text) == text # NoText /\ JSONParse(text).kind = "SyntaxError"

\* The top level of the responseSchema of getMealPlan (lines 114-163): an
\* object with a days array and a prepStrategy with its three arrays.
ConformsToMealPlanSchema(v) ==
    /\ HasField(v, "days") /\ v.v["days"].t = "arr"
    /\ HasField(v, "prepStrategy") /\ WellFormedPrep(v.v["prepStrategy"])

\* C5: for every payload the backend can return under its response schema,
\* the value getMealPlan returns is either a plan with at least one day and
\* a prep strategy with its three arrays, or the canonical empty result
\* (empty day list, three empty arrays).
C5_MealPlanAtomic ==
    (/\ svc.fn = "getMealPlan" /\ svc.out.kind = "return"
     /\ ConformsToMealPlanSchema(svc.out.value))
        => (PopulatedPlan(svc.out.value) \/ svc.out.value = CanonicalEmptyPlan)

\* C5 for any payload that parses: days never come without a prep strategy.
C5_DaysImplyPrepStrategy ==
    (/\ svc.fn = "getMealPlan" /\ svc.out.kind = "return"
     /\ HasField(svc.out.value, "days"))
        => (PopulatedPlan(svc.out.value) \/ svc.out.value = CanonicalEmptyPlan)

\* C6: a response text that does not parse as JSON makes getMealPlan return
\* the canonical empty plan and getWorkoutPlan the empty list; nothing is
\* thrown.
C6_MalformedPayloadYieldsEmpty ==
    /\ (svc.fn = "getMealPlan" /\ svc.resp.transport = "ok" /\ Unparseable(svc.resp.text))
          => svc.out = Return(CanonicalEmptyPlan)
    /\ (svc.fn = "getWorkoutPlan" /\ svc.resp.transport = "ok" /\ Unparseable(svc.resp.text))
          => svc.out = Return(JArr(<<>>))

NumericField(venue, k) == k \in DOMAIN venue /\ venue[k].t = "num"

GymsReturned == svc.fn = "getGymRecommendations" /\ svc.out.kind = "return"

\* C7: every venue getGymRecommendations returns has a numeric lat and a
\* numeric lng (stated for the venues that stage 2 named).
C7_VenuesHaveCoordinates ==
    GymsReturned =>
        \A i \in 1..Len(svc.out.value) :
            "name" \in DOMAIN svc.out.value[i] =>
                /\ NumericField(svc.out.value[i], "lat")
                /\ NumericField(svc.out.value[i], "lng")

\* The stage-1 chunks that carry a uri, by position, and the citation the
\* j-th of them yields.
RetainedPositions(chunks) ==
    {i \in 1..Len(chunks) : chunks[i].mapsUri # "" \/ chunks[i].webUri # ""}
NthRetained(chunks, j) ==
    CHOOSE i \in RetainedPositions(chunks) :
        Cardinality({r \in RetainedPositions(chunks) : r <= i}) = j
Min(a, b) == IF a < b THEN a ELSE b

ExpectedCitations(chunks, links) ==
    /\ Len(links) = Min(3, Cardinality(RetainedPositions(chunks)))
    /\ \A j \in 1..Len(links) :
          LET c == chunks[NthRetained(chunks, j)] IN
          /\ links[j].uri = (IF c.mapsUri # "" THEN c.mapsUri ELSE c.webUri)
          /\ links[j].title \in {c.mapsTitle, c.webTitle, "View Source"}

Stage2Array ==
    LET r == JSONParse(svc.stage2.text) IN
    IF r.kind = "value" /\ r.v.t = "arr" THEN r.v.v ELSE <<>>

\* C8: every returned venue carries exactly the first min(3, n) retained
\* stage-1 citations in stage-1 order, and every element of the stage-2
\* array is returned whatever n is (n = 0 included).
C8_CitationMerge ==
    GymsReturned =>
        /\ Len(svc.out.value) = Len(Stage2Array)
        /\ \A i \in 1..Len(svc.out.value) :
              ExpectedCitations(svc.stage1.groundingChunks,
                                svc.out.value[i]["groundingLinks"])

\* C8 witness: four retained citations are cut to three on each of three venues.
C8_Witness ==
    /\ GymsReturned
    /\ Cardinality(RetainedPositions(svc.stage1.groundingChunks)) = 4
    /\ Len(svc.out.value) = 3
    /\ Len(svc.out.value[3]["groundingLinks"]) = 3

\* Scenario C: no citation at all, three venues returned.
C8_WitnessNoCitations ==
    /\ GymsReturned
    /\ RetainedPositions(svc.stage1.groundingChunks) = {}
    /\ Len(svc.stage1.groundingChunks) > 0
    /\ Len(svc.out.value) = 3

Stage2ParseFails ==
    LET r == JSONParse(svc.stage2.text) IN
    r.kind = "SyntaxError" \/ r.v.t # "arr"

\* C9: when both stages answered and the stage-2 text is not a JSON array,
\* getGymRecommendations returns the empty list and does not throw.
C9_Stage2ParseFailureYieldsEmpty ==
    (/\ svc.fn = "getGymRecommendations"
     /\ svc.stage1.transport = "ok" /\ svc.stage2.transport = "ok"
     /\ Stage2ParseFails)
        => svc.out = Return(<<>>)

\* C9 witness: stage 2 answered `not json` after a discovery with citations.
C9_Witness ==
    /\ svc.fn = "getGymRecommendations"
    /\ svc.stage1.transport = "ok" /\ svc.stage2.transport = "ok"
    /\ svc.stage2.text = NotJsonText
    /\ Len(svc.stage1.groundingChunks) > 0
    /\ svc.out = Return(<<>>)

\* C9 witness for JSON that is no array.
C9_WitnessNotArray ==
    /\ svc.fn = "getGymRecommendations"
    /\ svc.stage1.transport = "ok" /\ svc.stage2.transport = "ok"
    /\ svc.stage2.text = Gym1
    /\ svc.out = Return(<<>>)

TransportFailed ==
    \/ svc.fn \in {"getMealPlan", "getWorkoutPlan"} /\ svc.resp.transport = "error"
    \/ /\ svc.fn = "getGymRecommendations"
       /\ (svc.stage1.transport = "error" \/ svc.stage2.transport = "error")

DegradedResult ==
    CASE svc.fn = "getMealPlan" -> Return(CanonicalEmptyPlan)
      [] svc.fn = "getWorkoutPlan" -> Return(JArr(<<>>))
      [] svc.fn = "getGymRecommendations" -> Return(<<>>)

\* C10: a remote call that raises makes the layer function return its
\* empty result instead of throwing.
C10_TransportFailureNonFatal ==
    TransportFailed => svc.out = DegradedResult


(***************************************************************************)
(* Properties of the image functions (SpecSvc)                             *)
(***************************************************************************)
\* The response carries an inline payload in its first candidate.
HasInlinePayload(resp) ==
    /\ PartsReadable(resp)
    /\ FindInlineData(resp.candidates[1].parts) # 0
FirstPayload(resp) ==
    resp.candidates[1].parts[FindInlineData(resp.candidates[1].parts)]

\* C17 (as stated, refuted): generateMealImage answers a response without
\* inline payload with the empty locator and no error, and a response with
\* one with the data locator of that payload.
C17_MissingPayloadYieldsEmpty ==
    (svc.fn = "generateMealImage" /\ svc.resp.transport = "ok") =>
        svc.out = (IF HasInlinePayload(svc.resp)
                   THEN Return(DataUrl(FirstPayload(svc.resp)))
                   ELSE Return(EmptyLocator))

\* generateMealImage when the first candidate has content: the statement of
\* C17 holds for these responses.
GenerateMealImageOnParts ==
    (svc.fn = "generateMealImage" /\ svc.resp.transport = "ok"
        /\ PartsReadable(svc.resp)) =>
        svc.out = (IF HasInlinePayload(svc.resp)
                   THEN Return(DataUrl(FirstPayload(svc.resp)))
                   ELSE Return(EmptyLocator))

\* C18 (as stated, refuted): editMealImage answers a response without inline
\* payload with exactly the locator it was given.
C18_EditNoOpOnFailure ==
    (svc.fn = "editMealImage" /\ svc.resp.transport = "ok"
        /\ ~HasInlinePayload(svc.resp)) =>
        svc.out = Return(svc.base64Image)

(***************************************************************************)
(* Properties of updateMealImageInState (SpecSvc)                          *)
(***************************************************************************)
\* The meals of a day by position: the three named meals, then the snacks.
MealsOf(day) ==
    <<day.breakfast, day.lunch, day.dinner>>
    \o (IF day.snacks.isArray THEN day.snacks.items ELSE <<>>)

\* C20: updateMealImageInState(key, url) sets the cache entry of key to url
\* whatever it was, leaves every other cache entry alone, keeps the days and
\* the positions of their meals, gives every meal named key, at breakfast,
\* lunch, dinner and every snack of every day, the locator url with its other
\* fields unchanged, and leaves every other meal as it was.
C20_ReplacePropagates ==
    svc.fn = "updateMealImageInState" =>
        /\ svc.out.cache[svc.mealName] = svc.url
        /\ \A k \in CacheNames \ {svc.mealName} : svc.out.cache[k] = svc.cache[k]
        /\ Len(svc.out.plans) = Len(svc.plans)
        /\ \A d \in 1..Len(svc.plans) :
              LET before == MealsOf(svc.plans[d])
                  after == MealsOf(svc.out.plans[d])
              IN /\ svc.out.plans[d].day = svc.plans[d].day
                 /\ Len(after) = Len(before)
                 /\ \A k \in 1..Len(before) :
                       /\ after[k].name = before[k].name
                       /\ after[k].calories = before[k].calories
                       /\ after[k].imageUrl =
                             (IF before[k].name = svc.mealName
                              THEN svc.url ELSE before[k].imageUrl)

\* C20 witness: a replace on a two-day plan where the name occurs as a third
\* snack and on the other day, another meal has its own image, and the cache
\* held an older locator for the name.
C20_Witness ==
    /\ svc.fn = "updateMealImageInState"
    /\ svc.mealName = "Oats"
    /\ svc.url = "new"
    /\ svc.cache["Oats"] = "old1"
    /\ Len(svc.plans) = 2
    /\ svc.plans[1].snacks.isArray
    /\ Len(svc.plans[1].snacks.items) = 3
    /\ svc.plans[1].snacks.items[3].name = "Oats"
    /\ svc.plans[2].lunch.name = "Oats"
    /\ svc.out.plans[2].breakfast.imageUrl = "old1"

\* C26: the citations of a returned venue are the chunks that have a map
\* uri or a web uri, in order, up to three of them -- chunks without uri do
\* not count toward the three -- and each citation's uri is the chunk's map
\* uri when it has one and its web uri otherwise.
C26_CitationFilter ==
    GymsReturned =>
        \A v \in 1..Len(svc.out.value) :
            LET links == svc.out.value[v]["groundingLinks"]
                chunks == svc.stage1.groundingChunks
                withUri == {i \in 1..Len(chunks) :
                               chunks[i].mapsUri # "" \/ chunks[i].webUri # ""}
            IN /\ Len(links) = Min(3, Cardinality(withUri))
               /\ \A j \in 1..Len(links) :
                     LET c == chunks[NthRetained(chunks, j)] IN
                     /\ links[j].uri # ""
                     /\ c.mapsUri # "" => links[j].uri = c.mapsUri
                     /\ c.mapsUri = "" => links[j].uri = c.webUri

\* C26 witness: the first of four chunks has no uri and is discarded; the
\* three others are all cited, the one with both uris by its map uri.
C26_Witness ==
    /\ GymsReturned
    /\ Len(svc.out.value) > 0
    /\ Len(svc.stage1.groundingChunks) = 4
    /\ svc.stage1.groundingChunks[1] = Chunk("", "Only a title", "", "")
    /\ svc.stage1.groundingChunks[3] = Chunk("", "", "https://b", "")
    /\ svc.stage1.groundingChunks[4] = Chunk("maps://c", "", "https://c", "Gym C")
    /\ Len(svc.out.value[1]["groundingLinks"]) = 3
    /\ svc.out.value[1]["groundingLinks"][2].uri = "https://b"
    /\ svc.out.value[1]["groundingLinks"][3].uri = "maps://c"

(***************************************************************************)
(* Properties of the two requests of getGymRecommendations (SpecSvc)       *)
(***************************************************************************)
GymCall == svc # Idle /\ svc.fn = "getGymRecommendations:requests"
ExtractionRequests ==
    {i \in 1..Len(svc.requests) : svc.requests[i].model = "gemini-3-flash-preview"}

\* The extraction request, if issued, is the second request, follows a
\* received discovery response, and carries that response's text and one
\* entry for each of its grounding chunks, kept or not, in order.
ExtractionFollowsDiscovery ==
    GymCall =>
        /\ ExtractionRequests \subseteq {2}
        /\ svc.requests[1] = DiscoveryRequest
        /\ ExtractionRequests # {} =>
              /\ svc.stage1.transport = "ok"
              /\ svc.requests[2].text = svc.stage1.text
              /\ Len(svc.requests[2].context) = Len(svc.stage1.groundingChunks)
              /\ \A i \in 1..Len(svc.stage1.groundingChunks) :
                    svc.requests[2].context[i] = StringifyChunk(svc.stage1.groundingChunks[i])

C25_WitnessNoCitations ==
    /\ GymCall /\ svc.pc = "stage2"
    /\ svc.stage1.groundingChunks = <<>>
    /\ Cardinality(ExtractionRequests) = 1

(***************************************************************************)
(* Properties of the macro targets (SpecSvc)                               *)
(***************************************************************************)
\* C23 (as stated, refuted): at every weight the protein, carbohydrate and
\* fat targets for 'Muscle Gain' are each greater than those for
\* 'Maintenance' at the same weight.
C23_MuscleGainExceedsMaintenance ==
    (svc.fn = "goals" /\ svc.goal = "Muscle Gain") =>
        LET base == goals(svc.weight, "Maintenance") IN
        /\ svc.out.value.protein > base.protein
        /\ svc.out.value.carbs > base.carbs
        /\ svc.out.value.fats > base.fats

\* From three kilograms on the statement of C23 holds.
MuscleGainExceedsFromThree ==
    (svc.fn = "goals" /\ svc.goal = "Muscle Gain" /\ svc.weight >= 3) =>
        LET base == goals(svc.weight, "Maintenance") IN
        /\ svc.out.value.protein > base.protein
        /\ svc.out.value.carbs > base.carbs
        /\ svc.out.value.fats > base.fats

(***************************************************************************)
(* Properties of the media operation (SpecVideoOp, SpecVideo)              *)
(***************************************************************************)
\* The milestones in the order getExerciseVideo reaches them.
MilestoneOrder ==
    <<MsgInit, MsgAccess, MsgSynth, MsgMap, MsgRefine, MsgRender, MsgFinal, MsgComplete>>
MilestoneIndex(msg) == CHOOSE k \in 1..Len(MilestoneOrder) : MilestoneOrder[k] = msg

StrictlyIncreasing(progress) ==
    \A k \in 1..(Len(progress) - 1) :
        MilestoneIndex(progress[k]) < MilestoneIndex(progress[k + 1])

\* C4: the notifications of a completed operation are strictly increasing
\* in milestone index and end with the completion message; the completion
\* message is emitted by no operation that has not resolved.
C4_ProgressMonotonic ==
    \A i \in 1..Len(ops) :
        /\ ops[i].pc = "resolved" =>
              /\ \A k \in 1..Len(ops[i].progress) : ops[i].progress[k] \in
                     {MilestoneOrder[j] : j \in 1..Len(MilestoneOrder)}
              /\ StrictlyIncreasing(ops[i].progress)
              /\ Last(ops[i].progress) = MsgComplete
              /\ ops[i].result # NoLocator
        /\ ops[i].pc # "resolved" =>
              /\ \A k \in 1..Len(ops[i].progress) : ops[i].progress[k] # MsgComplete
              /\ ops[i].result = NoLocator

\* C4 witness: an operation that resolved after passing every milestone.
C4_Witness ==
    \E i \in 1..Len(ops) :
        /\ ops[i].pc = "resolved"
        /\ ops[i].pollCount >= 14
        /\ ops[i].progress = MilestoneOrder

(***************************************************************************)
(* Properties of the media operation (SpecVideoOp, SpecVideo)              *)
(***************************************************************************)
\* The state of the operation manager's state machine an invocation is in.
OpState(op) ==
    CASE op.pc = "submit" -> "submitted"
      [] op.pc \in {"delay", "status"} -> "polling"
      [] op.pc = "resolved" -> "done"
      [] op.pc = "rejected" -> "failed"

\* Every change of an invocation in this step is one of the given
\* transitions, no invocation disappears, and a new one starts submitted.
StepsAlong(transitions) ==
    /\ Len(ops') >= Len(ops)
    /\ \A i \in 1..Len(ops) :
          ops'[i] # ops[i] => <<OpState(ops[i]), OpState(ops'[i])>> \in transitions
    /\ \A i \in (Len(ops) + 1)..Len(ops') : OpState(ops'[i]) = "submitted"

\* The transitions of section 4.3; a creation call that returns an operation
\* already done passes the loop test once and resolves with no status call.
StatedTransitions ==
    {<<"submitted", "polling">>, <<"submitted", "done">>,
     <<"polling", "polling">>, <<"polling", "done">>, <<"polling", "failed">>}

\* C11 (as stated, refuted): an operation moves only along submitted ->
\* polling -> done or submitted -> polling -> failed; done and failed are
\* terminal.
C11_StatedStateMachine == [][StepsAlong(StatedTransitions)]_vars

\* C11 (amended): an operation moves only along the stated transitions or
\* from submitted directly to failed when the creation call raises; it
\* leaves submitted as soon as the creation call settles, and nothing about
\* an operation changes once it is done or failed.
C11_StateMachine ==
    [][StepsAlong(StatedTransitions \cup {<<"submitted", "failed">>})]_vars

\* C11 witness: an operation that failed at the creation call, before any
\* poll.
C11_Witness ==
    \E i \in 1..Len(ops) : ops[i].pc = "rejected" /\ ops[i].pollCount = 0


\* The backend locator a returned value was built from.
DownloadLink(result) == result[1]

\* C12 (as stated, refuted): an operation resolves, and VIDEO_CACHE gets an
\* entry, only with a value built from a locator the backend exposed.
C12_DoneRequiresArtifact ==
    /\ \A i \in 1..Len(ops) :
          ops[i].pc = "resolved" => DownloadLink(ops[i].result) # NoUri
    /\ \A e \in Exercises :
          VIDEO_CACHE[e] # NoLocator => DownloadLink(VIDEO_CACHE[e]) # NoUri

\* This step is a handleOpenDemo call for the exercise.
DemoOpens(e) == ~isDemoVisible /\ isDemoVisible' /\ activeExercise' = e

Emitted(op, msg) == \E k \in 1..Len(op.progress) : op.progress[k] = msg

\* C13: an operation fails only when its creation or status call raises;
\* failing writes no cache entry, emits no completion notification and
\* returns no locator; a failed operation issues no further call; and while
\* the exercise has no cache entry the next handleOpenDemo for it submits a
\* new operation.
C13_FailureWithoutRetry ==
    [][\A i \in 1..Len(ops) :
          /\ (ops[i].pc # "rejected" /\ ops'[i].pc = "rejected") =>
                /\ ops[i].pc \in {"submit", "status"}
                /\ VIDEO_CACHE' = VIDEO_CACHE
                /\ ops'[i].result = NoLocator
                /\ ~Emitted(ops'[i], MsgComplete)
          /\ ops[i].pc = "rejected" => ops'[i] = ops[i]
          /\ (/\ ops[i].pc = "rejected"
              /\ VIDEO_CACHE[ops[i].exercise] = NoLocator
              /\ DemoOpens(ops[i].exercise)) =>
                /\ Len(ops') = Len(ops) + 1
                /\ ops'[Len(ops')] = NewOp(ops[i].exercise)]_vars

\* C13 witness: an operation failed at a status call, the error message was
\* shown, and a handleOpenDemo after that submitted a new operation for the
\* same exercise (its first notification is the message on display).
C13_Witness ==
    \E i, j \in 1..Len(ops) :
        /\ i < j
        /\ ops[i].pc = "rejected"
        /\ ops[i].pollCount > 0
        /\ ops[j].exercise = ops[i].exercise
        /\ ops[j].pc = "submit"
        /\ videoLoading
        /\ videoProgressMsg = MsgInit

IsBackendCall(c) == c.type \in {"generateVideos", "getVideosOperation"}
StatusCalls(op) ==
    Cardinality({k \in 1..Len(op.calls) : op.calls[k] = StatusCall})

\* C14: every status call directly follows one timer of the constant,
\* non-zero poll delay, which directly follows the previous backend call of
\* the operation; every timer has that same length; and the poll counter is
\* the number of status calls issued, or one more.
C14_FixedPollDelay ==
    \A i \in 1..Len(ops) :
        /\ ops[i].calls[1] = CreateCall
        /\ \A k \in 2..Len(ops[i].calls) :
              /\ ops[i].calls[k] = StatusCall =>
                    /\ ops[i].calls[k - 1] = TimerStart
                    /\ k > 2 /\ IsBackendCall(ops[i].calls[k - 2])
              /\ IsBackendCall(ops[i].calls[k]) => ~IsBackendCall(ops[i].calls[k - 1])
              /\ ops[i].calls[k].type = "setTimeout" =>
                    /\ ops[i].calls[k].ms = PollDelayMs
                    /\ IsBackendCall(ops[i].calls[k - 1])
              /\ ops[i].calls[k] # CreateCall
        /\ PollDelayMs > 0
        /\ ops[i].pollCount - StatusCalls(ops[i]) \in {0, 1}

\* C14 witness: an operation about to receive the answer of its third
\* status call.
C14_Witness ==
    \E i \in 1..Len(ops) : ops[i].pc = "status" /\ StatusCalls(ops[i]) = 3

Polling(op) == op.pc \in {"delay", "status"}
Settled(op) == op.pc \in {"resolved", "rejected"}

\* A 'not done' answer to the pending status call of invocation i starts
\* the next delay.
NotDoneContinues(i) ==
    /\ StatusReturns(i, MaxPolls)
    /\ ops'[i].pc = "delay"
    /\ ops'[i].pollCount = ops[i].pollCount + 1

\* C15: no poll count ends an operation -- whatever the number of polls so
\* far, a 'not done' answer starts the next delay and a running delay ends
\* in the next status call, and an operation leaves polling only on the
\* answer to a status call; and once the backend stops answering 'not done'
\* the operation settles (done, unless a backend call raised).
C15_PollsUntilBackendResolves ==
    /\ [](\A i \in 1..Len(ops) :
            /\ (ops[i].pc = "status" /\ ops[i].pollCount < MaxPolls)
                  => ENABLED NotDoneContinues(i)
            /\ ops[i].pc = "delay" => ENABLED DelayElapses(i))
    /\ [][\A i \in 1..Len(ops) :
            (Polling(ops[i]) /\ ~Polling(ops'[i]))
                => (ops[i].pc = "status" /\ Settled(ops'[i]))]_vars
    /\ (Len(ops) > 0 /\ Polling(ops[1])) ~> (Len(ops) > 0 /\ Settled(ops[1]))

\* C15 witness: an operation that was answered 'not done' as many times as
\* the model lets the backend do so, and resolved on the next answer.
C15_Witness ==
    \E i \in 1..Len(ops) :
        /\ ops[i].pc = "resolved"
        /\ ops[i].pollCount = MaxPolls
        /\ StatusCalls(ops[i]) = MaxPolls

\* The demo view no longer waits for invocation i: it was closed, or it now
\* shows another exercise.
Discarded(i) == ~isDemoVisible \/ activeExercise # ops[i].exercise

\* C16 (as stated, refuted): a step of a discarded invocation changes
\* neither the displayed video URL, nor the loading flag, nor the progress
\* message.
C16_DiscardedIsIgnored ==
    [][\A i \in 1..Len(ops) :
          (ops'[i] # ops[i] /\ Discarded(i)) =>
              UNCHANGED <<currentVideoUrl, videoLoading, videoProgressMsg>>]_vars

\* The part of C16 about a demo opened afterwards for another exercise: the
\* resolution of a discarded invocation does not become the video on display.
DiscardedNotDisplayed ==
    [][\A i \in 1..Len(ops) :
          (ops'[i] # ops[i] /\ isDemoVisible /\ activeExercise # ops[i].exercise) =>
              UNCHANGED <<currentVideoUrl, videoLoading>>]_vars

\* C27: a handleOpenDemo for an exercise that has a cache entry displays the
\* cached locator with the loading flag false, submits no operation and
\* issues no call, emits no progress notification, and leaves the cache as
\* it is.
C27_CacheHitNoSideEffects ==
    [][\A e \in Exercises :
          (DemoOpens(e) /\ VIDEO_CACHE[e] # NoLocator) =>
              /\ currentVideoUrl' = VIDEO_CACHE[e]
              /\ ~videoLoading'
              /\ ops' = ops
              /\ videoProgressMsg' = videoProgressMsg
              /\ VIDEO_CACHE' = VIDEO_CACHE]_vars

\* C27 witness: Squat was generated and cached, Press was opened after it,
\* and the demo is open for Squat again without a third invocation.
C27_Witness ==
    /\ Len(ops) = 2
    /\ ops[1].exercise = "Squat" /\ ops[1].pc = "resolved"
    /\ ops[2].exercise = "Press"
    /\ isDemoVisible
    /\ activeExercise = "Squat"
    /\ VIDEO_CACHE["Squat"] # NoLocator
    /\ currentVideoUrl = VIDEO_CACHE["Squat"]
    /\ ~videoLoading

(***************************************************************************)
(* components/MealPlanner.tsx: MealImage, SESSION_IMAGE_CACHE, MealPlanner *)
(***************************************************************************)
\* A locator is a string.  NoUrl stands for undefined / null / a missing map
\* entry, EmptyUrl for '' (what generateMealImage returns when the response
\* holds no image part, geminiService.ts:64); both are falsy in JavaScript.
NoUrl == "none"
EmptyUrl == ""
GeneratedUrls == {"img1", "img2"}
EditedUrl == "edited"
Truthy(url) == url \notin {NoUrl, EmptyUrl}

MealNames == {"Oats", "Salmon"}
\* The five positions of the timeline, MealPlanner.tsx:357-361.
Slots == {"breakfast", "snack1", "lunch", "snack2", "dinner"}

NoMeal == [name |-> "none", imageUrl |-> NoUrl]
Meal(name, url) == [name |-> name, imageUrl |-> url]
Day(breakfast, lunch) ==
    [s \in Slots |-> IF s = "breakfast" THEN breakfast
                     ELSE IF s = "lunch" THEN lunch ELSE NoMeal]

\* Plans a getMealPlan call can deliver (no meal carries an image yet).  Meal
\* names are unique within a day; the same name recurs on another day.
TwoDayPlan ==
    <<Day(Meal("Oats", NoUrl), Meal("Salmon", NoUrl)),
      Day(Meal("Salmon", NoUrl), Meal("Oats", NoUrl))>>
OneDayPlan == <<Day(Meal("Oats", NoUrl), NoMeal)>>
FetchedPlans == {TwoDayPlan, OneDayPlan, <<>>}
\* Plans found in localStorage at construction (lines 93-98): nothing, a plan
\* without images, a plan whose first meal name already has its image.
StoredPlans ==
    {<<>>, TwoDayPlan,
     <<Day(Meal("Oats", "img1"), Meal("Salmon", NoUrl)),
       Day(Meal("Salmon", NoUrl), Meal("Oats", "img1"))>>}
NoPrep == "null"
Prep == "prep"

MaxGenCalls == 3
MaxEditCalls == 1
MaxFetchCalls == 1

\* Line 188 and the early return of line 252: the spinner replaces the whole
\* component while loading with no plan; the timeline exists in daily view.
TimelineRendered(pl, ld, vw) == ~(ld /\ Len(pl) = 0) /\ vw = "daily"
ActiveDay(pl, idx) ==
    IF idx + 1 <= Len(pl) THEN pl[idx + 1] ELSE [s \in Slots |-> NoMeal]
\* Lines 357-380: the props of the MealImage at a slot, NoMeal when the slot
\* renders nothing.
SlotProps(pl, idx, ld, vw, s) ==
    IF TimelineRendered(pl, ld, vw) THEN ActiveDay(pl, idx)[s] ELSE NoMeal

\* Lines 156-170.
UpdatePlans(pl, mealName, url) ==
    [d \in 1..Len(pl) |->
        [s \in Slots |-> IF pl[d][s].name = mealName
                         THEN [pl[d][s] EXCEPT !.imageUrl = url]
                         ELSE pl[d][s]]]
\* Mutant of UpdateCache: writing one entry evicts the others.
UpdateCache_Evicting(cache, mealName, url) ==
    [k \in DOMAIN cache |-> IF k = mealName THEN url ELSE NoUrl]

UpdateCache(cache, mealName, url) == [cache EXCEPT ![mealName] = url]

\* One MealImage instance.  fetching: the fetchImage call of the live effect
\* (isMounted still true) has not settled.
Unmounted ==
    [mounted |-> FALSE, imageUrl |-> NoUrl, loading |-> FALSE,
     isVisible |-> FALSE, fetching |-> FALSE]

\* Lines 25-28 and the effects of the first commit: effect 1 finds the state
\* it would set, effect 3 returns at line 51 (isVisible is false).
MountImage(props, cache) ==
    [mounted |-> TRUE,
     imageUrl |-> IF Truthy(props.imageUrl) THEN props.imageUrl
                  ELSE IF Truthy(cache[props.name]) THEN cache[props.name]
                  ELSE NoUrl,
     loading |-> ~Truthy(props.imageUrl) /\ ~Truthy(cache[props.name]),
     isVisible |-> FALSE,
     fetching |-> FALSE]

\* Lines 31-36.
SyncActs(old, new) == new.imageUrl # old.imageUrl /\ Truthy(new.imageUrl)

\* Line 51: the effect generates when the instance is visible and holds no
\* image.  The cache is not read here.
StartsFetch(st, props, cache) ==
    st.isVisible /\ ~Truthy(st.imageUrl)

\* A render of MealPlanner reaches a slot.  onImageLoaded is a new function
\* on every render (line 380), so effect 3 is cleaned up and run again with
\* the state of this render; effect 1 runs when existingUrl changed, and a
\* change of imageUrl it makes cleans effect 3 up once more.
\*   st       the instance after the step
\*   issued   the name generateMealImage was called with, "none" if not called
\*   stale    the calls this render left in flight with isMounted = false
RenderSlot(st, old, new, cache) ==
    IF new = NoMeal
    THEN [st |-> Unmounted, issued |-> "none",
          stale |-> IF st.fetching THEN {old.name} ELSE {},
          staleNew |-> FALSE]
    ELSE IF ~st.mounted
    THEN [st |-> MountImage(new, cache), issued |-> "none", stale |-> {},
          staleNew |-> FALSE]
    ELSE LET sync == SyncActs(old, new)
             url == IF sync THEN new.imageUrl ELSE st.imageUrl
             starts == StartsFetch(st, new, cache)
             kept == starts /\ url = st.imageUrl
         IN [st |-> [mounted |-> TRUE, imageUrl |-> url,
                     loading |-> IF sync THEN FALSE ELSE st.loading,
                     isVisible |-> st.isVisible, fetching |-> kept],
             issued |-> IF starts THEN new.name ELSE "none",
             stale |-> IF st.fetching THEN {old.name} ELSE {},
             staleNew |-> starts /\ ~kept]

Count(S) == Cardinality(S)
Total(f) == f["Oats"] + f["Salmon"]

\* Line 124, the effect on [plans]: a non-empty plan is written to
\* localStorage, an empty one is not.
NotStored == <<>>
\* Mutant of Persist: the effect writes whatever is held.
Persist_Always(stored, newPlans) == <<newPlans>>
Persist(stored, newPlans) == IF Len(newPlans) > 0 THEN <<newPlans>> ELSE stored

\* The commit of a MealPlanner render: every slot is rendered with the new
\* props; pre is the instances as the handler left them.
Commit(pre, cache, newPlans, newIdx, newLoading, newView) ==
    LET r == [s \in Slots |->
                 RenderSlot(pre[s],
                            SlotProps(plans, activeDayIdx, loading, view, s),
                            SlotProps(newPlans, newIdx, newLoading, newView, s),
                            cache)]
    IN /\ images' = [s \in Slots |-> r[s].st]
       /\ genCalls' = [k \in MealNames |->
              genCalls[k] + Count({s \in Slots : r[s].issued = k})]
       /\ staleGens' = [k \in MealNames |->
              staleGens[k] + Count({s \in Slots : k \in r[s].stale})
                           + Count({s \in Slots : r[s].issued = k /\ r[s].staleNew})]
       /\ Total(genCalls') <= MaxGenCalls
       /\ storedPlans' = Persist(storedPlans, newPlans)

MealName(s) == SlotProps(plans, activeDayIdx, loading, view, s).name
\* The detail modal (line 561) is a full-screen overlay above the timeline.
ModalOpen == selectedMeal # NoMeal /\ ~(loading /\ Len(plans) = 0)

InitMeal ==
    /\ SESSION_IMAGE_CACHE = [k \in MealNames |-> NoUrl]
    /\ plans \in StoredPlans
    /\ prepStrategy = IF Len(plans) = 0 THEN NoPrep ELSE Prep
    /\ activeDayIdx = 0
    /\ view = "daily"
    /\ selectedMeal = NoMeal
    /\ isEditingImage = FALSE
    \* Lines 143-145: the mount effect calls fetchPlans when there is no plan.
    /\ loading = (Len(plans) = 0)
    /\ fetches = IF Len(plans) = 0 THEN 1 ELSE 0
    /\ fetchCalls = fetches
    /\ language = "en"
    \* Lines 93-98: the plan held at construction is the stored one.
    /\ storedPlans = IF Len(plans) = 0 THEN NotStored ELSE <<plans>>
    /\ images = [s \in Slots |->
          IF SlotProps(plans, 0, loading, "daily", s) = NoMeal THEN Unmounted
          ELSE MountImage(SlotProps(plans, 0, loading, "daily", s),
                          SESSION_IMAGE_CACHE)]
    /\ genCalls = [k \in MealNames |-> 0]
    /\ staleGens = [k \in MealNames |-> 0]
    /\ edits = <<>>
    /\ editCalls = 0

\* Lines 40-45: the observer of a slot without image reports it on screen;
\* the instance re-renders and effect 3 calls generateMealImage.
Intersect(s) ==
    /\ images[s].mounted
    /\ ~Truthy(images[s].imageUrl)
    /\ ~images[s].isVisible
    /\ LET st == [images[s] EXCEPT !.isVisible = TRUE]
           starts == StartsFetch(st, SlotProps(plans, activeDayIdx, loading, view, s),
                                 SESSION_IMAGE_CACHE)
       IN /\ images' = [images EXCEPT ![s] = [st EXCEPT !.fetching = starts]]
          /\ genCalls' = [genCalls EXCEPT ![MealName(s)] = @ + (IF starts THEN 1 ELSE 0)]
    /\ Total(genCalls') <= MaxGenCalls
    /\ UNCHANGED <<svcVars, videoVars, language, storedPlans>>
    /\ UNCHANGED <<SESSION_IMAGE_CACHE, plans, prepStrategy, activeDayIdx, loading, view,
                   selectedMeal, isEditingImage, staleGens, edits, editCalls,
                   fetches, fetchCalls>>

\* Lines 55-64 with isMounted true: generateMealImage resolved with url.
GenResolves(s, url) ==
    /\ images[s].fetching
    /\ LET cache == UpdateCache(SESSION_IMAGE_CACHE, MealName(s), url)
           pre == [images EXCEPT ![s] = [@ EXCEPT !.imageUrl = url,
                                                  !.loading = FALSE,
                                                  !.fetching = FALSE]]
           newPlans == UpdatePlans(plans, MealName(s), url)
       IN /\ SESSION_IMAGE_CACHE' = cache
          /\ plans' = newPlans
          /\ Commit(pre, cache, newPlans, activeDayIdx, loading, view)
    /\ UNCHANGED <<svcVars, videoVars, language>>
    /\ UNCHANGED <<prepStrategy, activeDayIdx, loading, view, selectedMeal,
                   isEditingImage, edits, editCalls, fetches, fetchCalls>>

\* Lines 61-64 with isMounted true: generateMealImage rejected.
GenRejects(s) ==
    /\ images[s].fetching
    /\ images' = [images EXCEPT ![s] = [@ EXCEPT !.loading = FALSE, !.fetching = FALSE]]
    /\ UNCHANGED <<svcVars, videoVars, language, storedPlans>>
    /\ UNCHANGED <<SESSION_IMAGE_CACHE, plans, prepStrategy, activeDayIdx, loading, view,
                   selectedMeal, isEditingImage, genCalls, staleGens, edits,
                   editCalls, fetches, fetchCalls>>

\* Mutant of StaleGenSettles: the completion is not guarded by isMounted and
\* stores its result.
StaleGenSettles_Stores(k) ==
    /\ staleGens[k] > 0
    /\ staleGens' = [staleGens EXCEPT ![k] = @ - 1]
    /\ SESSION_IMAGE_CACHE' = [SESSION_IMAGE_CACHE EXCEPT ![k] = "img1"]
    /\ UNCHANGED <<svcVars, videoVars, language, storedPlans>>
    /\ UNCHANGED <<plans, prepStrategy, activeDayIdx, loading, view,
                   selectedMeal, isEditingImage, images, genCalls, edits,
                   editCalls, fetches, fetchCalls>>

\* Lines 56 and 64 with isMounted false: the call settles and nothing happens.
StaleGenSettles(k) ==
    /\ staleGens[k] > 0
    /\ staleGens' = [staleGens EXCEPT ![k] = @ - 1]
    /\ UNCHANGED <<svcVars, videoVars, language, storedPlans>>
    /\ UNCHANGED <<SESSION_IMAGE_CACHE, plans, prepStrategy, activeDayIdx, loading, view,
                   selectedMeal, isEditingImage, images, genCalls, edits,
                   editCalls, fetches, fetchCalls>>

\* Line 306: a day button.
SelectDay(idx) ==
    /\ ~(loading /\ Len(plans) = 0)
    /\ ~ModalOpen
    /\ idx \in 0..(Len(plans) - 1)
    /\ idx # activeDayIdx
    /\ activeDayIdx' = idx
    /\ Commit(images, SESSION_IMAGE_CACHE, plans, idx, loading, view)
    /\ UNCHANGED <<svcVars, videoVars, language>>
    /\ UNCHANGED <<SESSION_IMAGE_CACHE, plans, prepStrategy, loading, view, selectedMeal,
                   isEditingImage, edits, editCalls, fetches, fetchCalls>>

\* Lines 287-288: the view switch.
SetView(v) ==
    /\ ~(loading /\ Len(plans) = 0)
    /\ ~ModalOpen
    /\ v # view
    /\ view' = v
    /\ Commit(images, SESSION_IMAGE_CACHE, plans, activeDayIdx, loading, v)
    /\ UNCHANGED <<svcVars, videoVars, language>>
    /\ UNCHANGED <<SESSION_IMAGE_CACHE, plans, prepStrategy, activeDayIdx, loading,
                   selectedMeal, isEditingImage, edits, editCalls, fetches, fetchCalls>>

\* Line 374: a meal card opens the detail modal on the meal of the plan.
SelectMeal(s) ==
    /\ ~ModalOpen
    /\ MealName(s) # "none"
    /\ selectedMeal' = SlotProps(plans, activeDayIdx, loading, view, s)
    /\ Commit(images, SESSION_IMAGE_CACHE, plans, activeDayIdx, loading, view)
    /\ UNCHANGED <<svcVars, videoVars, language>>
    /\ UNCHANGED <<SESSION_IMAGE_CACHE, plans, prepStrategy, activeDayIdx, loading, view,
                   isEditingImage, edits, editCalls, fetches, fetchCalls>>

\* Line 579: the modal's close button.
CloseMeal ==
    /\ ModalOpen
    /\ selectedMeal' = NoMeal
    /\ Commit(images, SESSION_IMAGE_CACHE, plans, activeDayIdx, loading, view)
    /\ UNCHANGED <<svcVars, videoVars, language>>
    /\ UNCHANGED <<SESSION_IMAGE_CACHE, plans, prepStrategy, activeDayIdx, loading, view,
                   isEditingImage, edits, editCalls, fetches, fetchCalls>>

\* The controls that call handleEditImage: a preset button (line 647), the
\* Synthesize button (line 669) and the Enter key of the prompt input
\* (line 665).
Triggers == {"preset", "button", "enter"}
\* editPrompt as the user typed it before acting: the input (lines 660-667)
\* is never disabled, so any text can be there.  A preset carries its own
\* non-blank prompt.
PresetPrompt == "Add a fresh citrus wedge (lemon/lime) on the side"
Prompts == {"", "  ", "Brighter colors"}
\* !prompt.trim()
Blank(prompt) == prompt \in {"", "  "}

\* The disabled attributes of lines 646 and 670; the input has none.
ControlEnabled(trigger, prompt) ==
    CASE trigger = "preset" -> ~isEditingImage
      [] trigger = "button" -> ~isEditingImage /\ ~Blank(prompt)
      [] OTHER -> TRUE

\* Line 173: promptOverride || editPrompt.
PromptToUse(trigger, prompt) == IF trigger = "preset" THEN PresetPrompt ELSE prompt

\* The sequence with x placed at position i.
InsertAt(seq, i, x) == SubSeq(seq, 1, i - 1) \o <<x>> \o SubSeq(seq, i, Len(seq))

\* Lines 172-177 up to the await.  edits holds the calls in flight in the
\* order in which they will settle, which is the backend's choice.
EditStarts(trigger, prompt, maxCalls) ==
    /\ ModalOpen
    /\ ControlEnabled(trigger, prompt)
    /\ Truthy(selectedMeal.imageUrl)
    /\ ~Blank(PromptToUse(trigger, prompt))
    /\ editCalls < maxCalls
    /\ isEditingImage' = TRUE
    /\ \E i \in 1..(Len(edits) + 1) : edits' = InsertAt(edits, i, selectedMeal)
    /\ editCalls' = editCalls + 1
    /\ Commit(images, SESSION_IMAGE_CACHE, plans, activeDayIdx, loading, view)
    /\ UNCHANGED <<svcVars, videoVars, language>>
    /\ UNCHANGED <<SESSION_IMAGE_CACHE, plans, prepStrategy, activeDayIdx, loading, view,
                   selectedMeal, fetches, fetchCalls>>

\* geminiService.ts:83-91: the edited image, or the original when the
\* response holds no image part.
EditResults(original) == {EditedUrl, original}

\* Lines 177-184: editMealImage resolved with newUrl for the meal the
\* handler was started on.
EditResolves(newUrl) ==
    /\ Len(edits) > 0
    /\ newUrl \in EditResults(edits[1].imageUrl)
    /\ LET cache == UpdateCache(SESSION_IMAGE_CACHE, edits[1].name, newUrl)
           newPlans == UpdatePlans(plans, edits[1].name, newUrl)
       IN /\ SESSION_IMAGE_CACHE' = cache
          /\ plans' = newPlans
          /\ Commit(images, cache, newPlans, activeDayIdx, loading, view)
    /\ selectedMeal' = IF selectedMeal # NoMeal
                       THEN [selectedMeal EXCEPT !.imageUrl = newUrl]
                       ELSE NoMeal
    /\ isEditingImage' = FALSE
    /\ edits' = Tail(edits)
    /\ UNCHANGED <<svcVars, videoVars, language>>
    /\ UNCHANGED <<prepStrategy, activeDayIdx, loading, view, editCalls,
                   fetches, fetchCalls>>

\* Lines 181-184: editMealImage rejected.
EditRejects ==
    /\ Len(edits) > 0
    /\ isEditingImage' = FALSE
    /\ edits' = Tail(edits)
    /\ Commit(images, SESSION_IMAGE_CACHE, plans, activeDayIdx, loading, view)
    /\ UNCHANGED <<svcVars, videoVars, language>>
    /\ UNCHANGED <<SESSION_IMAGE_CACHE, plans, prepStrategy, activeDayIdx, loading, view,
                   selectedMeal, editCalls, fetches, fetchCalls>>

\* Line 318 (disabled while loading) and lines 129-132 up to the await.
Refresh ==
    /\ ~loading
    /\ ~ModalOpen
    /\ fetchCalls < MaxFetchCalls
    /\ loading' = TRUE
    /\ fetches' = fetches + 1
    /\ fetchCalls' = fetchCalls + 1
    /\ Commit(images, SESSION_IMAGE_CACHE, plans, activeDayIdx, TRUE, view)
    /\ UNCHANGED <<svcVars, videoVars, language>>
    /\ UNCHANGED <<SESSION_IMAGE_CACHE, plans, prepStrategy, activeDayIdx, view,
                   selectedMeal, isEditingImage, edits, editCalls>>

\* Mutant of FetchResolves: the images of the held plan are carried over to
\* the meals of the same name.
FetchResolves_Merging(days, prep) ==
    /\ fetches > 0
    /\ plans' = [d \in 1..Len(days) |->
                    [s \in Slots |->
                        IF days[d][s].name \in MealNames
                        THEN [days[d][s] EXCEPT !.imageUrl = SESSION_IMAGE_CACHE[days[d][s].name]]
                        ELSE days[d][s]]]
    /\ prepStrategy' = prep
    /\ activeDayIdx' = 0
    /\ loading' = FALSE
    /\ fetches' = fetches - 1
    /\ Commit(images, SESSION_IMAGE_CACHE, plans', 0, FALSE, view)
    /\ UNCHANGED <<svcVars, videoVars, language>>
    /\ UNCHANGED <<SESSION_IMAGE_CACHE, view, selectedMeal, isEditingImage, edits,
                   editCalls, fetchCalls>>

\* Lines 132-139: getMealPlan resolved with an object; days || [] and
\* prepStrategy || null are what the handler stores.
FetchResolves(days, prep) ==
    /\ fetches > 0
    /\ plans' = days
    /\ prepStrategy' = prep
    /\ activeDayIdx' = 0
    /\ loading' = FALSE
    /\ fetches' = fetches - 1
    /\ Commit(images, SESSION_IMAGE_CACHE, days, 0, FALSE, view)
    /\ UNCHANGED <<svcVars, videoVars, language>>
    /\ UNCHANGED <<SESSION_IMAGE_CACHE, view, selectedMeal, isEditingImage, edits,
                   editCalls, fetchCalls>>

\* Mutant of FetchRejects: a handler without catch and finally.
FetchRejects_Escapes ==
    /\ fetches > 0
    /\ fetches' = fetches - 1
    /\ unhandled' = unhandled + 1
    /\ Commit(images, SESSION_IMAGE_CACHE, plans, activeDayIdx, loading, view)
    /\ UNCHANGED <<svc, chat, videoVars, language>>
    /\ UNCHANGED <<SESSION_IMAGE_CACHE, plans, prepStrategy, activeDayIdx, view,
                   selectedMeal, isEditingImage, edits, editCalls, fetchCalls, loading>>

\* Lines 136-139: getMealPlan rejected.
FetchRejects ==
    /\ fetches > 0
    /\ loading' = FALSE
    /\ fetches' = fetches - 1
    /\ Commit(images, SESSION_IMAGE_CACHE, plans, activeDayIdx, FALSE, view)
    /\ UNCHANGED <<svcVars, videoVars, language>>
    /\ UNCHANGED <<SESSION_IMAGE_CACHE, plans, prepStrategy, activeDayIdx, view,
                   selectedMeal, isEditingImage, edits, editCalls, fetchCalls>>

\* Mutant of LanguageChanges: the effect calls fetchPlans whatever is held.
LanguageChanges_AlwaysFetch(lang, maxCalls) ==
    /\ lang # language
    /\ ~ModalOpen
    /\ language' = lang
    /\ fetchCalls < maxCalls
    /\ loading' = TRUE
    /\ fetches' = fetches + 1
    /\ fetchCalls' = fetchCalls + 1
    /\ Commit(images, SESSION_IMAGE_CACHE, plans, activeDayIdx, TRUE, view)
    /\ UNCHANGED <<svcVars, videoVars>>
    /\ UNCHANGED <<SESSION_IMAGE_CACHE, plans, prepStrategy, activeDayIdx, view,
                   selectedMeal, isEditingImage, edits, editCalls>>

\* App.tsx:69-70, 180: the language selector of the layout; MealPlanner is
\* rendered with the new prop and the effect of lines 143-145 runs again,
\* calling fetchPlans when no plan is held.
Languages == {"en", "ru", "es"}
LanguageChanges(lang, maxCalls) ==
    /\ lang # language
    /\ ~ModalOpen
    /\ language' = lang
    /\ IF Len(plans) = 0
       THEN /\ fetchCalls < maxCalls
            /\ loading' = TRUE
            /\ fetches' = fetches + 1
            /\ fetchCalls' = fetchCalls + 1
       ELSE UNCHANGED <<loading, fetches, fetchCalls>>
    /\ Commit(images, SESSION_IMAGE_CACHE, plans, activeDayIdx, loading', view)
    /\ UNCHANGED <<svcVars, videoVars>>
    /\ UNCHANGED <<SESSION_IMAGE_CACHE, plans, prepStrategy, activeDayIdx, view,
                   selectedMeal, isEditingImage, edits, editCalls>>

NextMeal ==
    \/ \E s \in Slots : Intersect(s)
    \/ \E s \in Slots, url \in GeneratedUrls \cup {EmptyUrl} : GenResolves(s, url)
    \/ \E s \in Slots : GenRejects(s)
    \/ \E k \in MealNames : StaleGenSettles(k)
    \/ \E idx \in 0..1 : SelectDay(idx)
    \/ \E v \in {"daily", "prep"} : SetView(v)
    \/ \E s \in Slots : SelectMeal(s)
    \/ CloseMeal
    \/ \E trigger \in Triggers, prompt \in Prompts :
          EditStarts(trigger, prompt, MaxEditCalls)
    \/ \E url \in {EditedUrl} \cup GeneratedUrls : EditResolves(url)
    \/ EditRejects
    \/ Refresh
    \/ \E days \in FetchedPlans, prep \in {Prep, NoPrep} : FetchResolves(days, prep)
    \/ FetchRejects


\* The timeline of a stored plan: images, day switches, the detail modal
\* and edits, without plan refreshes and view switches.
NextImages ==
    \/ \E s \in Slots : Intersect(s)
    \/ \E s \in Slots, url \in GeneratedUrls \cup {EmptyUrl} : GenResolves(s, url)
    \/ \E s \in Slots : GenRejects(s)
    \/ \E k \in MealNames : StaleGenSettles(k)
    \/ \E idx \in 0..1 : SelectDay(idx)
    \/ \E s \in Slots : SelectMeal(s)
    \/ CloseMeal
    \/ \E trigger \in Triggers, prompt \in Prompts :
          EditStarts(trigger, prompt, MaxEditCalls)
    \/ \E url \in {EditedUrl} \cup GeneratedUrls : EditResolves(url)
    \/ EditRejects

\* The timeline with plan refreshes: images, day switches and fetchPlans,
\* without the detail modal.
NextPlans ==
    \/ \E s \in Slots : Intersect(s)
    \/ \E s \in Slots, url \in GeneratedUrls \cup {EmptyUrl} : GenResolves(s, url)
    \/ \E s \in Slots : GenRejects(s)
    \/ \E k \in MealNames : StaleGenSettles(k)
    \/ \E idx \in 0..1 : SelectDay(idx)
    \/ Refresh
    \/ \E days \in FetchedPlans, prep \in {Prep, NoPrep} : FetchResolves(days, prep)
    \/ FetchRejects

(***************************************************************************)
(* WorkoutPlanner's plan (WorkoutPlanner.tsx:110-146) and App's copy of it *)
(* (App.tsx:64-69, 96-100).  A DailyWorkout is its dayTitle.  workout is   *)
(*   workouts, loading   WorkoutPlanner state                              *)
(*   language            the language prop WorkoutPlanner was rendered with*)
(*   fetches, fetchCalls getWorkoutPlan calls in flight / fetchWorkouts    *)
(*                       invocations so far                                *)
(*   workoutPlan         App state, set through onPlanGenerated            *)
(*   stored              localStorage 'vitality_workout': <<>> or <<plan>> *)
(***************************************************************************)
PushPull == <<"Push Day", "Pull Day">>
LegDay == <<"Leg Day">>
\* What getWorkoutPlan resolves with: nothing (<<>>) or <<an array>>.
NoData == <<>>
WorkoutData == {NoData, <<PushPull>>, <<LegDay>>, << <<>> >>}
\* data || []
OrEmpty(data) == IF data = NoData THEN <<>> ELSE data[1]
\* Found in localStorage at construction: nothing, or the plan of an earlier
\* session.
UpperLower == <<"Upper Body", "Lower Body">>
StoredWorkouts == {NotStored, <<UpperLower>>}

\* WorkoutPlanner.tsx:112-115, 119 and the mount run of the effect of lines
\* 144-146; App.tsx:64-69.
InitWorkout(stored) ==
    LET saved == IF stored = NotStored THEN <<>> ELSE stored[1]
    IN  workout = [workouts |-> saved, loading |-> Len(saved) = 0,
                   language |-> "en",
                   fetches |-> IF Len(saved) = 0 THEN 1 ELSE 0,
                   fetchCalls |-> IF Len(saved) = 0 THEN 1 ELSE 0,
                   workoutPlan |-> saved, stored |-> stored]

\* Lines 131-132: fetchWorkouts up to its await.
StartWorkoutFetch(w) ==
    [w EXCEPT !.loading = TRUE, !.fetches = @ + 1, !.fetchCalls = @ + 1]

\* Lines 194-196: the regenerate button, disabled while loading.
RefreshWorkouts(maxCalls) ==
    /\ ~workout.loading
    /\ workout.fetchCalls < maxCalls
    /\ workout' = StartWorkoutFetch(workout)
    /\ UNCHANGED <<svcVars, demoVars, mealVars>>

\* Lines 133-136 and 140: getWorkoutPlan resolved; App.tsx:96-100 runs for
\* the plan handed to onPlanGenerated.
WorkoutFetchResolves(data) ==
    /\ workout.fetches > 0
    /\ workout' = [workout EXCEPT !.workouts = OrEmpty(data),
                                  !.workoutPlan = OrEmpty(data),
                                  !.stored = Persist(@, OrEmpty(data)),
                                  !.loading = FALSE,
                                  !.fetches = @ - 1]
    /\ UNCHANGED <<svcVars, demoVars, mealVars>>

\* Lines 137-140: getWorkoutPlan rejected.
WorkoutFetchRejects ==
    /\ workout.fetches > 0
    /\ workout' = [workout EXCEPT !.loading = FALSE, !.fetches = @ - 1]
    /\ UNCHANGED <<svcVars, demoVars, mealVars>>

\* App.tsx:69-70, 132: WorkoutPlanner is rendered with another language and
\* the effect of lines 144-146 runs again.
WorkoutLanguageChanges(lang, maxCalls) ==
    /\ lang # workout.language
    /\ LET w == [workout EXCEPT !.language = lang]
       IN  IF Len(workout.workouts) = 0
           THEN /\ workout.fetchCalls < maxCalls
                /\ workout' = StartWorkoutFetch(w)
           ELSE workout' = w
    /\ UNCHANGED <<svcVars, demoVars, mealVars>>

(***************************************************************************)
(* components/ChatAssistant.tsx.  chat is                                  *)
(*   messages  the message list; a text is the sequence of its pieces and  *)
(*             req names the request whose handler appended the message    *)
(*             (0: the welcome message)                                    *)
(*   isTyping  the flag of line 22                                         *)
(*   language  the language the component was last rendered with           *)
(*   streams   the handleSendMessage invocations: pc is "sending" while    *)
(*             sendMessageStream is awaited, "streaming" inside the        *)
(*             for await, "done" after the finally                         *)
(***************************************************************************)
MaxRequests == 2      \* handleSendMessage invocations that pass the guard
MaxReplyChunks == 2   \* chunks of one streamed reply
Inputs == {"", "  ", "How much protein?"}
ReplyChunks == {"Aim for ", "180 g."}
ConnectionError == <<"Connection error.">>

\* Lines 29-31: the welcome message of a language.
Welcome(lang) ==
    [role |-> "model", req |-> 0,
     text |-> IF lang = "ru" THEN <<"Welcome (ru)">>
              ELSE IF lang = "es" THEN <<"Welcome (es)">>
              ELSE <<"Welcome (en)">>]

\* Lines 19-23 and the mount run of the effect of lines 27-32.
InitChat ==
    chat = [messages |-> <<Welcome("en")>>, isTyping |-> FALSE, language |-> "en",
            streams |-> <<>>]

\* newMessages[newMessages.length - 1].text = fullText (lines 50-52)
SetLastText(messages, fullText) ==
    [messages EXCEPT ![Len(messages)].text = fullText]

\* Lines 38-42: the form is submitted (line 84; the button of line 86 is
\* disabled while isTyping, the Enter key is not).
SendMessage(text) ==
    /\ ~Blank(text)
    /\ ~chat.isTyping
    /\ Len(chat.streams) < MaxRequests
    /\ LET req == Len(chat.streams) + 1
       IN  chat' = [chat EXCEPT
                !.messages = Append(@, [role |-> "user", req |-> req, text |-> <<text>>]),
                !.isTyping = TRUE,
                !.streams = Append(@, [pc |-> "sending", fullText |-> <<>>])]
    /\ UNCHANGED <<svc, unhandled, videoVars, mealVars>>

\* Lines 45-47: sendMessageStream resolved; the empty model message is
\* appended.
StreamOpens(i) ==
    /\ chat.streams[i].pc = "sending"
    /\ chat' = [chat EXCEPT
            !.messages = Append(@, [role |-> "model", req |-> i, text |-> <<>>]),
            !.streams[i].pc = "streaming"]
    /\ UNCHANGED <<svc, unhandled, videoVars, mealVars>>

\* Lines 48-54: one chunk of the reply.
ChunkArrives(i, chunk) ==
    /\ chat.streams[i].pc = "streaming"
    /\ Len(chat.streams[i].fullText) < MaxReplyChunks
    /\ LET fullText == Append(chat.streams[i].fullText, chunk)
       IN  chat' = [chat EXCEPT
                !.messages = SetLastText(@, fullText),
                !.streams[i].fullText = fullText]
    /\ UNCHANGED <<svc, unhandled, videoVars, mealVars>>

\* Lines 54 and 58-60: the stream is exhausted.
StreamEnds(i) ==
    /\ chat.streams[i].pc = "streaming"
    /\ chat' = [chat EXCEPT !.isTyping = FALSE, !.streams[i].pc = "done"]
    /\ UNCHANGED <<svc, unhandled, videoVars, mealVars>>

\* Lines 56-60: sendMessageStream or the stream raises.
StreamFails(i) ==
    /\ chat.streams[i].pc \in {"sending", "streaming"}
    /\ chat' = [chat EXCEPT
            !.messages = Append(@, [role |-> "model", req |-> i, text |-> ConnectionError]),
            !.isTyping = FALSE,
            !.streams[i].pc = "done"]
    /\ UNCHANGED <<svc, unhandled, videoVars, mealVars>>

\* Lines 27-32: the profile (lang = chat.language) or the language changed;
\* the session is replaced and the list is the welcome message again.
ContextChanges(lang) ==
    /\ chat' = [chat EXCEPT !.messages = <<Welcome(lang)>>, !.language = lang]
    /\ UNCHANGED <<svc, unhandled, videoVars, mealVars>>

NextChat ==
    \/ \E text \in Inputs : SendMessage(text)
    \/ \E i \in 1..Len(chat.streams) : StreamOpens(i)
    \/ \E i \in 1..Len(chat.streams), chunk \in ReplyChunks : ChunkArrives(i, chunk)
    \/ \E i \in 1..Len(chat.streams) : StreamEnds(i)
    \/ \E i \in 1..Len(chat.streams) : StreamFails(i)
    \/ \E lang \in Languages : ContextChanges(lang)

\* Plan synthesis alone: mount, the refresh button, language changes and
\* the day buttons.
MaxFetches == 3
NextFetch ==
    \/ Refresh
    \/ \E days \in FetchedPlans, prep \in {Prep, NoPrep} : FetchResolves(days, prep)
    \/ FetchRejects
    \/ \E lang \in Languages : LanguageChanges(lang, MaxFetches)
    \/ \E idx \in 0..1 : SelectDay(idx)
    \/ RefreshWorkouts(MaxFetches)
    \/ \E data \in WorkoutData : WorkoutFetchResolves(data)
    \/ WorkoutFetchRejects
    \/ \E lang \in Languages : WorkoutLanguageChanges(lang, MaxFetches)

\* The detail modal alone: selection, day switches and image edits.
MaxEdits == 2
NextEdits ==
    \/ \E idx \in 0..1 : SelectDay(idx)
    \/ \E s \in Slots : SelectMeal(s)
    \/ CloseMeal
    \/ \E trigger \in Triggers, prompt \in Prompts :
          EditStarts(trigger, prompt, MaxEdits)
    \/ \E url \in {EditedUrl} \cup GeneratedUrls : EditResolves(url)
    \/ EditRejects

(***************************************************************************)
(* Claims about the session content cache (MealImage, handleOpenDemo)      *)
(***************************************************************************)
\* generateMealImage calls for a meal name that have not settled.
GensInFlight(k) ==
    staleGens[k] + Count({s \in Slots : images[s].fetching /\ MealName(s) = k})

\* C1 (as stated, refuted): single flight per key -- at no time are two
\* generateMealImage calls for the same meal name in flight.
C1_SingleFlightPerKey ==
    \A k \in MealNames : GensInFlight(k) <= 1

\* getExerciseVideo invocations for an exercise that have not settled.
VideosInFlight(e) ==
    Count({i \in 1..Len(ops) : ops[i].exercise = e /\ ops[i].pc \notin {"resolved", "rejected"}})

\* The video instance of C1's statement, under SpecVideo: at no time are two
\* getExerciseVideo invocations for the same exercise in flight.
SingleFlightPerExercise ==
    \A e \in Exercises : VideosInFlight(e) <= 1

\* The locators getExerciseVideo has resolved with for the exercise.
LocatorsGeneratedFor(e) ==
    {ops[i].result : i \in {j \in 1..Len(ops) :
                               ops[j].exercise = e /\ ops[j].pc = "resolved"}}

\* The video on display, when the demo is open and not loading, was
\* generated for the active exercise.
DisplayedVideoIsOfActive ==
    (isDemoVisible /\ ~videoLoading /\ currentVideoUrl # NoLocator) =>
        currentVideoUrl \in LocatorsGeneratedFor(activeExercise)

\* While an invocation for the active exercise is in flight with the demo
\* open, the loading flag is true.
LoadingWhileActiveInFlight ==
    (isDemoVisible /\ VideosInFlight(activeExercise) > 0) => videoLoading

\* C30 (as stated, refuted): with the demo open, a displayed video URL is a
\* locator generated for the active exercise, and the loading flag is true
\* while an invocation for the active exercise is in flight.
C30_DisplayedVideoMatchesActive ==
    DisplayedVideoIsOfActive /\ LoadingWhileActiveInFlight

\* C2 (as stated, refuted): idempotence -- once a generation for a meal name
\* has completed with a locator and no edit has replaced anything, a later
\* request for that name never calls generateMealImage again.
C2_Idempotent ==
    [][\A k \in MealNames :
          (Truthy(SESSION_IMAGE_CACHE[k]) /\ editCalls = 0)
              => genCalls'[k] = genCalls[k]]_vars

\* C3 (as stated, refuted): replacement -- while the cache holds the locator
\* an edit wrote for a meal name, no request for that name calls
\* generateMealImage.
C3_ReplacedIsReused ==
    [][\A k \in MealNames :
          SESSION_IMAGE_CACHE[k] = EditedUrl => genCalls'[k] = genCalls[k]]_vars

\* This step is the completion of the generation the instance at slot s
\* waits for.
GenCompletes(s) ==
    \/ \E url \in GeneratedUrls \cup {EmptyUrl} : GenResolves(s, url)
    \/ GenRejects(s)

\* C19 (as stated, refuted): the completion of a generation call for a meal
\* name, whatever its outcome, issues no further generation call for that
\* name.
C19_NoAutomaticRetry ==
    [][\A s \in Slots :
          GenCompletes(s) => genCalls'[MealName(s)] = genCalls[MealName(s)]]_vars

Locators == {NoUrl, EmptyUrl, EditedUrl} \cup GeneratedUrls

\* C21: the cache maps every meal name to one value; the entry of a name
\* changes only when a generation for that name resolves (to what it
\* resolved with) or an edit of that name resolves (to what the edit
\* returned); a generation that raises changes no entry; and a name that has
\* an entry has one in the next state.
C21_CacheEntryLifecycle ==
    /\ [](SESSION_IMAGE_CACHE \in [MealNames -> Locators])
    /\ [][\A k \in MealNames :
            /\ SESSION_IMAGE_CACHE[k] # NoUrl => SESSION_IMAGE_CACHE'[k] # NoUrl
            /\ SESSION_IMAGE_CACHE'[k] # SESSION_IMAGE_CACHE[k] =>
                  \/ \E s \in Slots, url \in GeneratedUrls \cup {EmptyUrl} :
                        /\ MealName(s) = k
                        /\ GenResolves(s, url)
                        /\ SESSION_IMAGE_CACHE'[k] = url
                  \/ /\ Len(edits) > 0
                     /\ edits[1].name = k
                     /\ EditResolves(SESSION_IMAGE_CACHE'[k])
            /\ (\E s \in Slots : GenRejects(s)) =>
                  SESSION_IMAGE_CACHE' = SESSION_IMAGE_CACHE]_vars

\* C21 witness: one name has the entry an edit wrote, the other the entry
\* its second generation call wrote.
C21_Witness ==
    /\ SESSION_IMAGE_CACHE["Oats"] = EditedUrl
    /\ SESSION_IMAGE_CACHE["Salmon"] \in GeneratedUrls
    /\ genCalls["Salmon"] >= 2

\* C24 (as stated, refuted): when the generation of the instance at slot s
\* resolves, the cache entries and the plan's meals of every other name stay
\* as they were, and no generation in flight for another name is discarded
\* or issued again.
C24_IndependentKeys ==
    [][\A s \in Slots :
          (\E url \in GeneratedUrls \cup {EmptyUrl} : GenResolves(s, url)) =>
              \A k \in MealNames \ {MealName(s)} :
                  /\ SESSION_IMAGE_CACHE'[k] = SESSION_IMAGE_CACHE[k]
                  /\ \A d \in 1..Len(plans) : \A t \in Slots :
                        plans[d][t].name = k => plans'[d][t] = plans[d][t]
                  /\ staleGens'[k] = staleGens[k]
                  /\ genCalls'[k] = genCalls[k]]_vars

\* The part of C24 about the data: a resolving generation changes only its
\* own name's cache entry and meals.
OtherKeysDataUntouched ==
    [][\A s \in Slots :
          (\E url \in GeneratedUrls \cup {EmptyUrl} : GenResolves(s, url)) =>
              \A k \in MealNames \ {MealName(s)} :
                  /\ SESSION_IMAGE_CACHE'[k] = SESSION_IMAGE_CACHE[k]
                  /\ \A d \in 1..Len(plans) : \A t \in Slots :
                        plans[d][t].name = k => plans'[d][t] = plans[d][t]]_vars

\* C28: when a generation whose effect was cleaned up settles, the cache,
\* every MealImage instance and the plan stay as they are.
C28_DiscardOnCleanup ==
    [][(\E k \in MealNames : staleGens'[k] < staleGens[k]) =>
          /\ SESSION_IMAGE_CACHE' = SESSION_IMAGE_CACHE
          /\ images' = images
          /\ plans' = plans]_vars

\* C28 witness: the one generation issued for Oats settled after its slot
\* had moved on to another meal (no instance has seen a completion: all are
\* still loading); Oats has no cache entry and no meal has an image.
C28_Witness ==
    /\ genCalls["Oats"] = 1
    /\ GensInFlight("Oats") = 0
    /\ \A s \in Slots : images[s].mounted => images[s].loading
    /\ images["breakfast"].fetching
    /\ MealName("breakfast") = "Salmon"
    /\ SESSION_IMAGE_CACHE = [k \in MealNames |-> NoUrl]
    /\ \A d \in 1..Len(plans) : \A s \in Slots : plans[d][s].imageUrl = NoUrl

\* A locator exists for the meal name: the cache holds one (every live
\* generation and every edit writes it, and nothing removes it) or a meal of
\* that name in the plan carries one.
HasLocatorFor(k) ==
    \/ SESSION_IMAGE_CACHE[k] # NoUrl
    \/ \E d \in 1..Len(plans) : \E t \in Slots :
          plans[d][t].name = k /\ plans[d][t].imageUrl # NoUrl

\* C29 (as stated, refuted): a slot that displays an image displays a
\* locator generated or edited for the meal name it shows -- so a locator
\* exists for that name.
C29_SlotImageMatchesMeal ==
    \A s \in Slots :
        (images[s].mounted /\ Truthy(images[s].imageUrl)) => HasLocatorFor(MealName(s))

\* The image the detail view holds is absent or the one the plan embeds for
\* a meal of the selected name.
SelectedImageIsOfPlan ==
    selectedMeal # NoMeal =>
        \/ ~Truthy(selectedMeal.imageUrl)
        \/ \E d \in 1..Len(plans) : \E s \in Slots :
              /\ plans[d][s].name = selectedMeal.name
              /\ plans[d][s].imageUrl = selectedMeal.imageUrl

\* The completion of an edit started for one meal leaves a selected meal of
\* another name as it is.
EditLeavesOtherSelection ==
    [][(/\ Len(edits) > 0
        /\ Len(edits') < Len(edits)
        /\ selectedMeal # NoMeal
        /\ selectedMeal.name # edits[1].name) => selectedMeal' = selectedMeal]_vars

\* C31 (as stated, refuted): the selected meal's image is absent or the
\* plan's image for a meal of that name, and the completion of an edit never
\* changes the image of a different meal selected in the meantime.
C31_SelectedImageMatchesMeal ==
    []SelectedImageIsOfPlan /\ EditLeavesOtherSelection

\* A step that starts an edit call.
EditCallIssued == editCalls' = editCalls + 1

\* No edit call is started while isEditingImage is true, so at most one is
\* in flight.
SingleEditInFlight ==
    /\ [](Len(edits) <= 1)
    /\ [][isEditingImage => ~EditCallIssued]_vars

\* An edit call is started only on a selected meal with an image; and
\* isEditingImage is false after an edit call settled.
EditGuardAndFlagReset ==
    [][/\ EditCallIssued => (selectedMeal # NoMeal /\ Truthy(selectedMeal.imageUrl))
       /\ Len(edits') < Len(edits) => ~isEditingImage']_vars

\* C32 (as stated, refuted): an edit call needs an image and a prompt; while
\* isEditingImage is true no user action starts a second edit call; and
\* isEditingImage is false after an edit completes or raises.
C32_SingleEditInFlight ==
    SingleEditInFlight /\ EditGuardAndFlagReset

\* At most one getMealPlan call of fetchPlans is in flight.
SingleFetchInFlight == fetches <= 1

\* The loading flag is true while a synthesis is in flight.
LoadingWhileFetching == fetches > 0 => loading

\* C33 (as stated, refuted): at most one meal-plan synthesis is in flight and
\* the loading flag is true whenever one is, whatever the interleaving of
\* mount, the refresh button and language changes.
C33_FetchExclusive == SingleFetchInFlight /\ LoadingWhileFetching

MountTriggerIffEmpty ==
    /\ fetchCalls = (IF Len(plans) = 0 THEN 1 ELSE 0)
    /\ fetches = fetchCalls
    /\ workout.fetchCalls = (IF Len(workout.workouts) = 0 THEN 1 ELSE 0)
    /\ workout.fetches = workout.fetchCalls
MealLanguageTrigger ==
    language' # language =>
        /\ plans' = plans
        /\ IF Len(plans) = 0
           THEN fetchCalls' = fetchCalls + 1 /\ fetches' = fetches + 1 /\ loading'
           ELSE fetchCalls' = fetchCalls /\ fetches' = fetches /\ loading' = loading
WorkoutLanguageTrigger ==
    workout.language' # workout.language =>
        /\ workout.workouts' = workout.workouts
        /\ IF Len(workout.workouts) = 0
           THEN /\ workout.fetchCalls' = workout.fetchCalls + 1
                /\ workout.fetches' = workout.fetches + 1
                /\ workout.loading'
           ELSE /\ workout.fetchCalls' = workout.fetchCalls
                /\ workout.fetches' = workout.fetches
                /\ workout.loading' = workout.loading
C34_AutomaticTrigger ==
    /\ MountTriggerIffEmpty
    /\ [][MealLanguageTrigger /\ WorkoutLanguageTrigger]_vars
\* Both planners were rendered with another language while holding a plan
\* and have never started a synthesis.
C34_Witness ==
    /\ language # "en" /\ Len(plans) > 0 /\ fetchCalls = 0
    /\ workout.language # "en" /\ Len(workout.workouts) > 0 /\ workout.fetchCalls = 0
\* A language change with nothing held started a second synthesis.
C34_WitnessEmpty ==
    /\ language # "en" /\ Len(plans) = 0 /\ fetchCalls = 2
    /\ workout.language # "en" /\ Len(workout.workouts) = 0 /\ workout.fetchCalls = 2

\* C35: a failed fetch leaves the state alone.  A step in which getMealPlan
\* (getWorkoutPlan) rejects leaves the held plan, the prep strategy and the
\* active day index as they were and ends with the loading flag false, and no
\* rejection ever leaves fetchPlans or fetchWorkouts.
NoRejectionEscapes == unhandled = 0
MealFetchFailureKeepsState ==
    FetchRejects => /\ UNCHANGED <<plans, prepStrategy, activeDayIdx, storedPlans>>
                    /\ ~loading'
WorkoutFetchFailureKeepsState ==
    WorkoutFetchRejects =>
        /\ workout.workouts' = workout.workouts
        /\ workout.workoutPlan' = workout.workoutPlan
        /\ workout.stored' = workout.stored
        /\ ~workout.loading'
C35_FetchFailureKeepsState ==
    /\ []NoRejectionEscapes
    /\ [][MealFetchFailureKeepsState /\ WorkoutFetchFailureKeepsState]_vars
\* The one synthesis each planner started has settled and each still holds
\* the plan of the earlier session, on its second day, which no result
\* carries.
C35_Witness ==
    /\ plans \in StoredPlans \ FetchedPlans /\ fetchCalls = 1 /\ fetches = 0
    /\ activeDayIdx = 1 /\ ~loading
    /\ workout.workouts = UpperLower /\ workout.fetchCalls = 1 /\ workout.fetches = 0
    /\ ~workout.loading

\* C36: empty results are never persisted.  The stored meal plan and the
\* stored workout plan are each absent or non-empty in every state, and no
\* step replaces a stored non-empty plan by an empty one or removes it.
StoredAbsentOrNonEmpty(stored) == stored = NotStored \/ Len(stored[1]) > 0
StoredPlansNeverEmpty ==
    /\ StoredAbsentOrNonEmpty(storedPlans)
    /\ StoredAbsentOrNonEmpty(workout.stored)
NonEmptyStoredSurvives ==
    /\ (storedPlans # NotStored /\ Len(storedPlans[1]) > 0) =>
           (storedPlans' # NotStored /\ Len(storedPlans'[1]) > 0)
    /\ (workout.stored # NotStored /\ Len(workout.stored[1]) > 0) =>
           (workout.stored' # NotStored /\ Len(workout.stored'[1]) > 0)
\* What is stored is what was last held non-empty.
StoredFollowsHeld ==
    /\ Len(plans) > 0 => storedPlans = <<plans>>
    /\ Len(workout.workoutPlan) > 0 => workout.stored = <<workout.workoutPlan>>
C36_EmptyNeverPersisted ==
    /\ [](StoredPlansNeverEmpty /\ StoredFollowsHeld)
    /\ [][NonEmptyStoredSurvives]_vars
\* Both planners hold the empty result of a synthesis that has settled and
\* the plans stored before it are still there.
C36_Witness ==
    /\ Len(plans) = 0 /\ fetches = 0 /\ storedPlans # NotStored
    /\ Len(workout.workouts) = 0 /\ workout.fetches = 0 /\ workout.stored # NotStored

\* The characters of each progress message, for String.prototype.includes.
Text(msg) ==
    CASE msg = MsgLab ->
        <<"I", "n", "i", "t", "i", "a", "l", "i", "z", "i", "n", "g", " ", "S",
                "i", "m", "u", "l", "a", "t", "i", "o", "n", " ", "L", "a",
                "b", ".", ".", ".">>
      [] msg = MsgInit ->
        <<"I", "n", "i", "t", "i", "a", "l", "i", "z", "i", "n", "g", " ", "B",
                "i", "o", "-", "V", "i", "s", "u", "a", "l", " ", "S", "i",
                "m", "u", "l", "a", "t", "i", "o", "n", ".", ".", ".">>
      [] msg = MsgAccess ->
        <<"A", "c", "c", "e", "s", "s", "i", "n", "g", " ", "N", "e", "u", "r",
                "a", "l", " ", "C", "o", "m", "p", "u", "t", "e", " ", "P",
                "i", "p", "e", "l", "i", "n", "e", ".", ".", ".">>
      [] msg = MsgSynth ->
        <<"S", "y", "n", "t", "h", "e", "s", "i", "z", "i", "n", "g", " ", "M",
                "o", "v", "e", "m", "e", "n", "t", " ", "D", "y", "n", "a",
                "m", "i", "c", "s", ".", ".", ".">>
      [] msg = MsgMap ->
        <<"M", "a", "p", "p", "i", "n", "g", " ", "M", "u", "s", "c", "l", "e",
                " ", "G", "r", "o", "u", "p", " ", "A", "c", "t", "i", "v",
                "a", "t", "i", "o", "n", ".", ".", ".">>
      [] msg = MsgRefine ->
        <<"R", "e", "f", "i", "n", "i", "n", "g", " ", "B", "i", "o", "m", "e",
                "c", "h", "a", "n", "i", "c", "a", "l", " ", "P", "r", "e",
                "c", "i", "s", "i", "o", "n", ".", ".", ".">>
      [] msg = MsgRender ->
        <<"R", "e", "n", "d", "e", "r", "i", "n", "g", " ", "A", "t", "m", "o",
                "s", "p", "h", "e", "r", "i", "c", " ", "L", "i", "g", "h",
                "t", "i", "n", "g", ".", ".", ".">>
      [] msg = MsgFinal ->
        <<"F", "i", "n", "a", "l", "i", "z", "i", "n", "g", " ", "V", "i", "s",
                "u", "a", "l", " ", "S", "e", "q", "u", "e", "n", "c", "e",
                ".", ".", ".">>
      [] msg = MsgComplete ->
        <<"S", "i", "m", "u", "l", "a", "t", "i", "o", "n", " ", "C", "o", "m",
                "p", "l", "e", "t", "e", ".", " ", "F", "i", "n", "a", "l",
                "i", "z", "i", "n", "g", " ", "S", "t", "r", "e", "a", "m",
                ".">>
      [] msg = MsgError ->
        <<"N", "e", "t", "w", "o", "r", "k", " ", "P", "r", "o", "t", "o", "c",
                "o", "l", " ", "E", "r", "r", "o", "r", ".", " ", "P", "l",
                "e", "a", "s", "e", " ", "R", "e", "t", "r", "y", ".">>
      [] OTHER -> <<>>

\* text.includes(needle)
Includes(text, needle) ==
    \E i \in 0..(Len(text) - Len(needle)) :
        \A j \in 1..Len(needle) : text[i + j] = needle[j]

\* The words getCurrentStep looks for (WorkoutPlanner.tsx:34-38).
WordSimulation == <<"S", "i", "m", "u", "l", "a", "t", "i", "o", "n">>
WordCompute == <<"C", "o", "m", "p", "u", "t", "e">>
WordSynthesis == <<"S", "y", "n", "t", "h", "e", "s", "i", "s">>
WordMapping == <<"M", "a", "p", "p", "i", "n", "g">>
WordRefining == <<"R", "e", "f", "i", "n", "i", "n", "g">>
WordAtmospheric == <<"A", "t", "m", "o", "s", "p", "h", "e", "r", "i", "c">>
WordFinalizing == <<"F", "i", "n", "a", "l", "i", "z", "i", "n", "g">>
WordComplete == <<"C", "o", "m", "p", "l", "e", "t", "e">>

\* WorkoutPlanner.tsx:33-40, VideoSkeletonLoader.getCurrentStep.
getCurrentStep(progress) ==
    LET text == Text(progress)
    IN  IF Includes(text, WordSimulation) THEN 0
        ELSE IF Includes(text, WordCompute) THEN 1
        ELSE IF Includes(text, WordSynthesis) \/ Includes(text, WordMapping) THEN 2
        ELSE IF Includes(text, WordRefining) \/ Includes(text, WordAtmospheric) THEN 3
        ELSE IF Includes(text, WordFinalizing) \/ Includes(text, WordComplete) THEN 4
        ELSE 2

\* The messages the loader of one operation is given, in order: the caller's
\* (WorkoutPlanner.tsx:161), then those of getExerciseVideo.
LoaderMessages(op) == <<MsgLab>> \o op.progress
StepsNeverRegress(messages) ==
    \A k \in 1..(Len(messages) - 1) :
        getCurrentStep(messages[k]) <= getCurrentStep(messages[k + 1])
WithoutCompletion(messages) ==
    IF Len(messages) > 0 /\ Last(messages) = MsgComplete
    THEN SubSeq(messages, 1, Len(messages) - 1) ELSE messages

\* C37: the loader step never regresses.  Over the messages of every
\* operation, the caller's first and the completion message last, the step
\* getCurrentStep derives never decreases.
C37_LoaderStepNeverRegresses ==
    \A i \in 1..Len(ops) : StepsNeverRegress(LoaderMessages(ops[i]))
\* What the code does keep: no regression before the completion message.
C37_NoRegressBeforeCompletion ==
    \A i \in 1..Len(ops) : StepsNeverRegress(WithoutCompletion(LoaderMessages(ops[i])))
\* An operation polled past its last milestone has completed.
C37_Witness ==
    \E i \in 1..Len(ops) :
        /\ ops[i].pc = "resolved"
        /\ Emitted(ops[i], MsgFinal)
        /\ Last(ops[i].progress) = MsgComplete

\* C38: chat stream integrity.  At most one chat request is in flight, and a
\* chunk of a streamed reply changes no message but the model message its own
\* request appended; the welcome message always reads as it was installed.
RequestsInFlight == {i \in 1..Len(chat.streams) : chat.streams[i].pc # "done"}
SingleRequestInFlight ==
    /\ Cardinality(RequestsInFlight) <= 1
    /\ RequestsInFlight # {} => chat.isTyping
WelcomeIntact ==
    \A k \in 1..Len(chat.messages) :
        chat.messages[k].req = 0 => chat.messages[k] = Welcome(chat.language)
ChunkWritesOwnMessage ==
    \A i \in 1..Len(chat.streams), chunk \in ReplyChunks :
        ChunkArrives(i, chunk) =>
            /\ Len(chat.messages') = Len(chat.messages)
            /\ \A k \in 1..Len(chat.messages) :
                   chat.messages'[k] # chat.messages[k] =>
                       chat.messages[k].role = "model" /\ chat.messages[k].req = i
C38_ChatStreamIntegrity ==
    /\ [](SingleRequestInFlight /\ WelcomeIntact)
    /\ [][ChunkWritesOwnMessage]_vars
\* The part the code keeps.
C38_SingleRequest == SingleRequestInFlight

(***************************************************************************)
(* Specifications                                                          *)
(***************************************************************************)
Init ==
    /\ svc = Idle
    /\ unhandled = 0
    /\ InitChat
    /\ InitVideo
    /\ InitWorkout(NotStored)
    /\ InitMeal

\* The planners constructed over any stored workout plan.
InitFetch ==
    /\ svc = Idle
    /\ unhandled = 0
    /\ InitChat
    /\ InitVideo
    /\ \E stored \in StoredWorkouts : InitWorkout(stored)
    /\ InitMeal

SpecSvc == Init /\ [][NextSvc]_vars

SpecVideo == Init /\ [][NextVideo]_vars

SpecVideoOp == Init /\ [][NextVideoOp]_vars

\* SpecVideoOp with the scheduling of section 5: a pending backend answer
\* arrives and a started timer fires.
SpecVideoOpFair ==
    /\ Init /\ [][NextVideoOp]_vars
    /\ WF_vars(Len(ops) > 0 /\ (SubmitReturns(1) \/ BackendRaises(1)))
    /\ WF_vars(Len(ops) > 0 /\ DelayElapses(1))
    /\ WF_vars(Len(ops) > 0 /\ (StatusReturns(1, MaxPolls) \/ BackendRaises(1)))

\* The meal planner opened on a plan found in localStorage.
InitImages == Init /\ Len(plans) > 0
SpecImages == InitImages /\ [][NextImages]_vars

\* The meal planner's plan synthesis.
SpecFetch == InitFetch /\ [][NextFetch]_vars

\* The detail modal of a stored plan.
SpecEdits == InitImages /\ [][NextEdits]_vars

\* The meal planner with plan synthesis and no detail modal.
SpecPlans == Init /\ [][NextPlans]_vars

SpecChat == Init /\ [][NextChat]_vars

Next == NextMeal

Spec == Init /\ [][Next]_vars
=============================================================================
